---- MODULE Spec2Model ----
(***************************************************************************)
(* State-machine model of the AI-Planner agent pipeline:                   *)
(*   - runScheduleAgent (src/src/agent/scheduleAgent.ts): the bounded      *)
(*     round loop between model transport, parser and tool executor;       *)
(*   - handleApplyProposal (AiAssistantWorkspace, src/src/constants.ts):   *)
(*     per-operation application of a proposal through the persistence     *)
(*     callbacks of AppDataProvider (src/src/db.ts).                       *)
(* Free text (titles, messages, keywords) is a sequence of one-character   *)
(* strings; identifiers and enumerations are atomic strings; values of     *)
(* TypeScript type `unknown` are tagged records [t, v].                    *)
(***************************************************************************)
EXTENDS Integers, Sequences, FiniteSets, TLC

VARIABLES
  \* ---- runScheduleAgent ----
  agentPc,                \* "idle" | "awaiting" | "returned" | "failed"
  round,                  \* loop counter of runScheduleAgent (0-based)
  input,                  \* RunScheduleAgentInput: the snapshot of the run
  accumulatedToolResults, \* ToolExecutionResult[]
  agentResult,            \* RunScheduleAgentResult of a returned run
  agentError,             \* error thrown by a failed run
  clock,                  \* value of toIsoNow()
  \* ---- history of the current run (observation only) ----
  sentPrompts,            \* toolResults of each prompt handed to the transport
  received,               \* outcome of each transport call
  roundResults,           \* tool results executed in each round
  finalPayload,           \* payload of the response a returned run ended with
  \* ---- persistence (Dexie tables) and undo stack ----
  dbTasks, dbProjects, dbTaskTypes, undoStack, idCounter,
  projectDeletion,        \* id of the project a running deleteProject has counted
  \* ---- AiAssistantWorkspace ----
  tasks, projects, taskTypes,          \* useLiveQuery values of the last render
  pendingProposal, selectedOperationIndexes, isApplying, error, applyResult,
  \* ---- handleApplyProposal in progress ----
  applyRun

agentVars == <<agentPc, round, input, accumulatedToolResults, agentResult, agentError,
               clock, sentPrompts, received, roundResults, finalPayload>>
storeVars == <<dbTasks, dbProjects, dbTaskTypes, undoStack, idCounter, projectDeletion>>
uiVars    == <<tasks, projects, taskTypes, pendingProposal, selectedOperationIndexes,
               isApplying, error, applyResult>>
vars      == <<agentVars, storeVars, uiVars, applyRun>>

----------------------------------------------------------------------------
(* Values of type unknown (parsed JSON).                                   *)

Absent  == [t |-> "absent"]
Null    == [t |-> "null"]
Bool(b) == [t |-> "bool", v |-> b]
Num(n)  == [t |-> "num", v |-> n]
Str(s)  == [t |-> "str", v |-> s]
Arr(s)  == [t |-> "arr", v |-> s]
Obj(r)  == [t |-> "obj", v |-> r]

\* value.key of a record value (undefined when the key is missing)
Field(value, key) == IF key \in DOMAIN value.v THEN value.v[key] ELSE Absent

\* isRecord without the Array.isArray test
isRecord_ArraysToo(value) == value.t \in {"obj", "arr"}

isRecord(value) == value.t = "obj"

isString(value) == value.t = "str"

\* Boolean(value)
Truthy(value) ==
  CASE value.t = "absent" -> FALSE
    [] value.t = "null"   -> FALSE
    [] value.t = "bool"   -> value.v
    [] value.t = "num"    -> value.v # 0
    [] value.t = "str"    -> Len(value.v) > 0
    [] OTHER              -> TRUE

RECURSIVE TrimStart(_)
TrimStart(s) == IF s # <<>> /\ Head(s) = " " THEN TrimStart(Tail(s)) ELSE s

RECURSIVE TrimEnd(_)
TrimEnd(s) ==
  IF s # <<>> /\ s[Len(s)] = " " THEN TrimEnd(SubSeq(s, 1, Len(s) - 1)) ELSE s

\* String.prototype.trim on free text
Trim(s) == TrimEnd(TrimStart(s))

\* Array.prototype.slice(0, n)
Slice0(s, n) == SubSeq(s, 1, IF Len(s) < n THEN Len(s) ELSE n)

EmptyObject == Obj([k \in {} |-> Absent])

\* the date-time texts of the model: zone says how the instant t is written
\* ("Z", "+09:00"), "invalid" is text Date cannot parse, "empty" is "",
\* "undefined" an absent optional field
DateText(zone, t) == [zone |-> zone, t |-> t]
NoDate      == DateText("undefined", 0)
EmptyDate   == DateText("empty", 0)
InvalidDate == DateText("invalid", 0)

\* new Date(value).getTime(): a number of milliseconds, or NaN
getTime(value) ==
  IF value.zone \in {"Z", "+09:00"} THEN [isNaN |-> FALSE, ms |-> value.t]
  ELSE [isNaN |-> TRUE, ms |-> 0]

\* a < b on numbers (false when either is NaN)
LessThan(a, b) == ~a.isNaN /\ ~b.isNaN /\ a.ms < b.ms

\* toIsoNow(): new Date().toISOString() at wall-clock time now
toIsoNow(now) == DateText("Z", now)

----------------------------------------------------------------------------
(* scheduleAgent.ts: parser / validator                                    *)

MAX_TOOL_ROUNDS == 4

MAX_CALLS_PER_ROUND == 4

allowedTools ==
  {"list_projects", "list_task_types", "search_tasks", "get_task", "current_datetime"}

isTaskStatus(value) == value.t = "str" /\ value.v \in {"NOT_DONE", "ON_HOLD", "DONE"}

\* JSON.parse(extractJsonText(raw)) followed by the isRecord check; raw is the
\* text of the model reduced to what JSON.parse makes of it
parseModelPayload(raw) ==
  IF raw.syntax # "json" THEN [threw |-> TRUE, error |-> "SyntaxError"]
  ELSE IF ~isRecord(raw.value) THEN [threw |-> TRUE, error |-> "NotJsonObject"]
  ELSE [threw |-> FALSE, payload |-> raw.value]

\* ToolCallOf without the allowedTools test
ToolCallOf_NoWhitelist(item) ==
  IF ~isRecord(item) \/ ~isString(Field(item, "tool")) THEN Null
  ELSE [tool |-> Field(item, "tool").v,
        args |-> IF isRecord(Field(item, "args")) THEN Field(item, "args") ELSE EmptyObject]

\* the callback of value.map(...) in parseToolCalls: an AgentToolCall or null
ToolCallOf(item) ==
  IF ~isRecord(item) \/ ~isString(Field(item, "tool")) THEN Null
  ELSE IF Field(item, "tool").v \notin allowedTools THEN Null
  ELSE [tool |-> Field(item, "tool").v,
        args |-> IF isRecord(Field(item, "args")) THEN Field(item, "args") ELSE EmptyObject]

RECURSIVE MapFilterToolCalls(_)
MapFilterToolCalls(items) ==
  IF items = <<>> THEN <<>>
  ELSE LET c == ToolCallOf(Head(items)) IN
       (IF c = Null THEN <<>> ELSE <<c>>) \o MapFilterToolCalls(Tail(items))

parseToolCalls(value) == IF value.t # "arr" THEN <<>> ELSE MapFilterToolCalls(value.v)

\* an AgentCreateTaskOperation, or Null
parseCreateOperation(value) ==
  IF ~isRecord(value) \/ Field(value, "action") # Str("create_task") THEN Null
  ELSE IF \/ ~isString(Field(value, "title"))
          \/ ~isString(Field(value, "taskTypeId"))
          \/ ~isString(Field(value, "projectId"))
          \/ ~isString(Field(value, "startAt"))
       THEN Null
  ELSE [action     |-> Str("create_task"),
        title      |-> Field(value, "title"),
        content    |-> IF isString(Field(value, "content")) THEN Field(value, "content")
                       ELSE Str(<<>>),
        taskTypeId |-> Field(value, "taskTypeId"),
        projectId  |-> Field(value, "projectId"),
        status     |-> IF isTaskStatus(Field(value, "status")) THEN Field(value, "status")
                       ELSE Str("NOT_DONE"),
        startAt    |-> Field(value, "startAt"),
        endAt      |-> IF isString(Field(value, "endAt")) THEN Field(value, "endAt")
                       ELSE Absent,
        isMajor    |-> IF Field(value, "isMajor").t = "bool" THEN Field(value, "isMajor")
                       ELSE Bool(FALSE)]

\* the keys parseUpdateOperation copies into changes, with the test each must pass
ChangeAccepted(key, v) ==
  CASE key \in {"title", "content", "taskTypeId", "projectId", "startAt"} -> isString(v)
    [] key = "status"  -> isTaskStatus(v)
    [] key = "endAt"   -> isString(v) \/ v = Null
    [] key = "isMajor" -> v.t = "bool"
    [] OTHER           -> FALSE

ChangeKeys ==
  {"title", "content", "taskTypeId", "projectId", "status", "startAt", "endAt", "isMajor"}

\* parseUpdateOperation without the test of the number of changes
parseUpdateOperation_KeepEmpty(value) ==
  IF \/ ~isRecord(value)
     \/ Field(value, "action") # Str("update_task")
     \/ ~isString(Field(value, "taskId"))
  THEN Null
  ELSE LET sourceChanges == IF isRecord(Field(value, "changes")) THEN Field(value, "changes")
                            ELSE EmptyObject
           kept    == {k \in ChangeKeys : ChangeAccepted(k, Field(sourceChanges, k))}
           changes == [k \in kept |-> Field(sourceChanges, k)]
       IN [action |-> Str("update_task"),
           taskId |-> Field(value, "taskId"),
           changes |-> Obj(changes)]

\* parseUpdateOperation storing a null endAt as undefined
parseUpdateOperation_NullAsUndefined(value) ==
  IF \/ ~isRecord(value)
     \/ Field(value, "action") # Str("update_task")
     \/ ~isString(Field(value, "taskId"))
  THEN Null
  ELSE LET sourceChanges == IF isRecord(Field(value, "changes")) THEN Field(value, "changes")
                            ELSE EmptyObject
           kept    == {k \in ChangeKeys : ChangeAccepted(k, Field(sourceChanges, k))}
           changes == [k \in kept |-> IF Field(sourceChanges, k) = Null THEN Absent
                                      ELSE Field(sourceChanges, k)]
       IN IF kept = {} THEN Null
          ELSE [action |-> Str("update_task"),
                taskId |-> Field(value, "taskId"),
                changes |-> Obj(changes)]

\* an AgentUpdateTaskOperation, or Null; changes is the sparse change-set
parseUpdateOperation(value) ==
  IF \/ ~isRecord(value)
     \/ Field(value, "action") # Str("update_task")
     \/ ~isString(Field(value, "taskId"))
  THEN Null
  ELSE LET sourceChanges == IF isRecord(Field(value, "changes")) THEN Field(value, "changes")
                            ELSE EmptyObject
           kept    == {k \in ChangeKeys : ChangeAccepted(k, Field(sourceChanges, k))}
           changes == [k \in kept |-> Field(sourceChanges, k)]
       IN IF kept = {} THEN Null
          ELSE [action |-> Str("update_task"),
                taskId |-> Field(value, "taskId"),
                changes |-> Obj(changes)]

\* an AgentDeleteTaskOperation, or Null
parseDeleteOperation(value) ==
  IF \/ ~isRecord(value)
     \/ Field(value, "action") # Str("delete_task")
     \/ ~isString(Field(value, "taskId"))
  THEN Null
  ELSE [action |-> Str("delete_task"),
        taskId |-> Field(value, "taskId"),
        reason |-> IF isString(Field(value, "reason")) THEN Field(value, "reason")
                   ELSE Absent]

\* the body of the for loop of parseProposal: the operation an item yields, or Null
OperationOf(item) ==
  IF parseCreateOperation(item) # Null THEN parseCreateOperation(item)
  ELSE IF parseUpdateOperation(item) # Null THEN parseUpdateOperation(item)
  ELSE parseDeleteOperation(item)

\* the for loop of parseProposal with unshift in place of push
RECURSIVE ParseOperations_Reversed(_)
ParseOperations_Reversed(items) ==
  IF items = <<>> THEN <<>>
  ELSE LET op == OperationOf(Head(items)) IN
       ParseOperations_Reversed(Tail(items)) \o (IF op = Null THEN <<>> ELSE <<op>>)

\* the for loop of parseProposal leaving the loop at the first item that
\* yields no operation
RECURSIVE ParseOperations_StopAtMalformed(_)
ParseOperations_StopAtMalformed(items) ==
  IF items = <<>> THEN <<>>
  ELSE LET op == OperationOf(Head(items)) IN
       IF op = Null THEN <<>> ELSE <<op>> \o ParseOperations_StopAtMalformed(Tail(items))

RECURSIVE ParseOperations(_)
ParseOperations(items) ==
  IF items = <<>> THEN <<>>
  ELSE LET op == OperationOf(Head(items)) IN
       (IF op = Null THEN <<>> ELSE <<op>>) \o ParseOperations(Tail(items))

DefaultSummary == <<"d", "f", "l", "t">>

\* parseProposal without the operations.length === 0 test
parseProposal_KeepEmpty(value) ==
  IF ~isRecord(value) THEN Absent
  ELSE LET operationsRaw == IF Field(value, "operations").t = "arr"
                            THEN Field(value, "operations").v ELSE <<>>
       IN [t |-> "proposal",
           summary |-> IF isString(Field(value, "summary")) THEN Field(value, "summary").v
                       ELSE DefaultSummary,
           operations |-> ParseOperations(operationsRaw)]

\* an AgentProposal, or Absent (undefined)
parseProposal(value) ==
  IF ~isRecord(value) THEN Absent
  ELSE LET operationsRaw == IF Field(value, "operations").t = "arr"
                            THEN Field(value, "operations").v ELSE <<>>
           operations == ParseOperations(operationsRaw)
       IN IF Len(operations) = 0 THEN Absent
          ELSE [t |-> "proposal",
                summary |-> IF isString(Field(value, "summary")) THEN Field(value, "summary").v
                            ELSE DefaultSummary,
                operations |-> operations]

----------------------------------------------------------------------------
(* scheduleAgent.ts: tool executor                                         *)

\* String.prototype.toLowerCase on the letters the model uses
LowerChar(c) ==
  CASE c = "R" -> "r" [] c = "E" -> "e" [] c = "P" -> "p" [] c = "W" -> "w" [] OTHER -> c

toLowerCase(s) == [i \in 1..Len(s) |-> LowerChar(s[i])]

\* String.prototype.includes
includes(haystack, needle) ==
  \E i \in 0..(Len(haystack) - Len(needle)) :
     SubSeq(haystack, i + 1, i + Len(needle)) = needle

\* array.find(item => item.id === id): the first match, or Absent
RECURSIVE find(_, _)
find(items, id) ==
  IF items = <<>> THEN Absent
  ELSE IF Head(items).id = id THEN Head(items) ELSE find(Tail(items), id)

\* projectMap[id]?.name ?? ""
nameOf(items, id) == IF find(items, id) = Absent THEN <<>> ELSE find(items, id).name

\* the id, name, isActive view list_projects / list_task_types / knownChoices give
choiceList(items) ==
  [i \in 1..Len(items) |->
     [id |-> items[i].id, name |-> items[i].name, isActive |-> items[i].isActive]]

\* the elements of items that ranked names, as <<rank, position>>, in the
\* order of their ranks 0, 1, ...
placed(items, ranked) ==
  [r \in 1..Cardinality(ranked) |-> items[(CHOOSE p \in ranked : p[1] = r - 1)[2]]]

\* array.filter(pred), pred given as the set of indices of the original array kept
filterSeq(items, keptIndices) ==
  placed(items, {<<Cardinality({k \in 1..(i - 1) : k \in keptIndices}), i>> :
                   i \in {k \in 1..Len(items) : k \in keptIndices}})

\* the comparator of the sort in search_tasks: true when b must come before a
updatedLater(b, a) == LessThan(getTime(a.updatedAt), getTime(b.updatedAt))

\* array.sort((a, b) => time(b.updatedAt) - time(a.updatedAt)), a stable sort:
\* an element stands behind those the comparator puts before it and behind
\* those it ties with that stood before it
sortByUpdatedDesc(items) ==
  placed(items, {<<Cardinality({k \in 1..Len(items) :
                                  \/ updatedLater(items[k], items[i])
                                  \/ ~updatedLater(items[i], items[k]) /\ k < i}), i>> :
                   i \in 1..Len(items)})

DEFAULT_SEARCH_LIMIT == 20

MAX_SEARCH_LIMIT == 50

\* Math.max(1, Math.min(50, Math.floor(limitRaw))); numbers are counted in halves
searchLimit(args) ==
  LET limitRaw == IF Field(args, "limit").t = "num" THEN Field(args, "limit").v
                  ELSE 2 * DEFAULT_SEARCH_LIMIT
      floored  == limitRaw \div 2
      capped   == IF floored > MAX_SEARCH_LIMIT THEN MAX_SEARCH_LIMIT ELSE floored
  IN IF capped < 1 THEN 1 ELSE capped

\* the search_tasks branch with slice before sort
searchTasks_SliceFirst(args, snapTasks, snapProjects, snapTaskTypes) ==
  LET keyword   == IF isString(Field(args, "keyword"))
                   THEN toLowerCase(Trim(Field(args, "keyword").v)) ELSE <<>>
      projectId == IF isString(Field(args, "projectId")) THEN Field(args, "projectId").v
                   ELSE ""
      status    == IF isTaskStatus(Field(args, "status")) THEN Field(args, "status").v
                   ELSE ""
      haystack(task) ==
        toLowerCase(task.title \o <<" ">> \o task.content \o <<" ">>
                    \o nameOf(snapProjects, task.projectId) \o <<" ">>
                    \o nameOf(snapTaskTypes, task.taskTypeId))
      kept == {i \in 1..Len(snapTasks) :
                 /\ (projectId # "" => snapTasks[i].projectId = projectId)
                 /\ (status # "" => snapTasks[i].status = status)
                 /\ (keyword # <<>> => includes(haystack(snapTasks[i]), keyword))}
      sliced == Slice0(filterSeq(snapTasks, kept), searchLimit(args))
      top    == sortByUpdatedDesc(sliced)
  IN [i \in 1..Len(top) |->
        [id |-> top[i].id, title |-> top[i].title, status |-> top[i].status,
         startAt |-> top[i].startAt, endAt |-> top[i].endAt,
         projectId |-> top[i].projectId,
         projectName |-> nameOf(snapProjects, top[i].projectId),
         taskTypeId |-> top[i].taskTypeId,
         taskTypeName |-> nameOf(snapTaskTypes, top[i].taskTypeId),
         isMajor |-> top[i].isMajor, updatedAt |-> top[i].updatedAt]]

\* the search_tasks branch of executeToolCall
searchTasks(args, snapTasks, snapProjects, snapTaskTypes) ==
  LET keyword   == IF isString(Field(args, "keyword"))
                   THEN toLowerCase(Trim(Field(args, "keyword").v)) ELSE <<>>
      projectId == IF isString(Field(args, "projectId")) THEN Field(args, "projectId").v
                   ELSE ""
      status    == IF isTaskStatus(Field(args, "status")) THEN Field(args, "status").v
                   ELSE ""
      haystack(task) ==
        toLowerCase(task.title \o <<" ">> \o task.content \o <<" ">>
                    \o nameOf(snapProjects, task.projectId) \o <<" ">>
                    \o nameOf(snapTaskTypes, task.taskTypeId))
      kept == {i \in 1..Len(snapTasks) :
                 /\ (projectId # "" => snapTasks[i].projectId = projectId)
                 /\ (status # "" => snapTasks[i].status = status)
                 /\ (keyword # <<>> => includes(haystack(snapTasks[i]), keyword))}
      sorted == sortByUpdatedDesc(filterSeq(snapTasks, kept))
      top    == Slice0(sorted, searchLimit(args))
  IN [i \in 1..Len(top) |->
        [id |-> top[i].id, title |-> top[i].title, status |-> top[i].status,
         startAt |-> top[i].startAt, endAt |-> top[i].endAt,
         projectId |-> top[i].projectId,
         projectName |-> nameOf(snapProjects, top[i].projectId),
         taskTypeId |-> top[i].taskTypeId,
         taskTypeName |-> nameOf(snapTaskTypes, top[i].taskTypeId),
         isMajor |-> top[i].isMajor, updatedAt |-> top[i].updatedAt]]

\* a ToolExecutionResult; result is tagged with its kind
executeToolCall(call, snapTasks, snapProjects, snapTaskTypes, now) ==
  CASE call.tool = "list_projects" ->
         [tool |-> call.tool, args |-> call.args, ok |-> TRUE,
          result |-> [kind |-> "projects", payload |-> choiceList(snapProjects)]]
    [] call.tool = "list_task_types" ->
         [tool |-> call.tool, args |-> call.args, ok |-> TRUE,
          result |-> [kind |-> "taskTypes", payload |-> choiceList(snapTaskTypes)]]
    [] call.tool = "current_datetime" ->
         [tool |-> call.tool, args |-> call.args, ok |-> TRUE,
          result |-> [kind |-> "now", payload |-> toIsoNow(now)]]
    [] call.tool = "get_task" ->
         LET taskId == IF isString(Field(call.args, "taskId")) THEN Field(call.args, "taskId").v
                       ELSE ""
             task   == find(snapTasks, taskId)
         IN [tool |-> call.tool, args |-> call.args, ok |-> task # Absent,
             result |-> IF task # Absent
                        THEN [kind |-> "task",
                              payload |-> [id |-> task.id, title |-> task.title,
                                           content |-> task.content, status |-> task.status,
                                           startAt |-> task.startAt, endAt |-> task.endAt,
                                           taskTypeId |-> task.taskTypeId,
                                           projectId |-> task.projectId,
                                           isMajor |-> task.isMajor,
                                           updatedAt |-> task.updatedAt]]
                        ELSE [kind |-> "message", payload |-> "task not found"]]
    [] OTHER ->
         [tool |-> "search_tasks", args |-> call.args, ok |-> TRUE,
          result |-> [kind |-> "tasks",
                      payload |-> searchTasks(call.args, snapTasks, snapProjects,
                                              snapTaskTypes)]]

----------------------------------------------------------------------------
(* llmClient.ts and scheduleAgent.ts: one agent run                        *)

\* requestLlmResponse on what fetch yields: a rejected fetch, a non-success
\* status, a success without text, or the trimmed text of the model
requestLlmResponse(http) ==
  CASE http.kind = "network_error" -> [threw |-> TRUE, error |-> "FetchFailed"]
    [] http.kind = "http_error"    -> [threw |-> TRUE, error |-> "LlmCallFailed"]
    [] http.text.syntax = "blank"  -> [threw |-> TRUE, error |-> "NoTextInResponse"]
    [] OTHER                       -> [threw |-> FALSE, text |-> http.text]

\* buildPromptMessages that leaves the accumulated results out
buildPromptMessages_NoResults(inp, toolResults, now) ==
  [now |-> toIsoNow(now),
   userRequest |-> inp.userMessage,
   knownChoices |-> [projectList |-> choiceList(inp.projects),
                     taskTypeList |-> choiceList(inp.taskTypes)],
   toolResults |-> <<>>]

\* the user-turn payload of the prompt (the system instruction is fixed)
buildPromptMessages(inp, toolResults, now) ==
  [now |-> toIsoNow(now),
   userRequest |-> inp.userMessage,
   knownChoices |-> [projectList |-> choiceList(inp.projects),
                     taskTypeList |-> choiceList(inp.taskTypes)],
   toolResults |-> toolResults]

\* the loop guard off by one
loopContinues_OffByOne(r) == r <= MAX_TOOL_ROUNDS

\* a loop without a cap
loopContinues_Unbounded(r) == TRUE

\* for (let round = 0; round < MAX_TOOL_ROUNDS; round += 1)
loopContinues(r) == r < MAX_TOOL_ROUNDS

\* parseToolCalls(payload.toolCalls).slice(0, 4)
roundToolCalls(payload) ==
  Slice0(parseToolCalls(Field(payload, "toolCalls")), MAX_CALLS_PER_ROUND)

\* a proposal in the payload takes precedence over its tool calls
takesToolBranch_ProposalFirst(payload) ==
  Len(roundToolCalls(payload)) > 0 /\ parseProposal(Field(payload, "proposal")) = Absent

\* the loop goes on until the payload carries a proposal
takesToolBranch_UntilProposal(payload) ==
  Len(roundToolCalls(payload)) > 0 \/ parseProposal(Field(payload, "proposal")) = Absent

\* if (toolCalls.length > 0) { ... continue; }
takesToolBranch(payload) == Len(roundToolCalls(payload)) > 0

\* executeRound on the tables of the store in place of the snapshot
executeRound_OnStore(payload, inp, now) ==
  LET toolCalls == roundToolCalls(payload) IN
  [i \in 1..Len(toolCalls) |->
     executeToolCall(toolCalls[i], dbTasks, dbProjects, dbTaskTypes, now)]

\* toolCalls.map((call) => executeToolCall(call, input.tasks, ...))
executeRound(payload, inp, now) ==
  LET toolCalls == roundToolCalls(payload) IN
  [i \in 1..Len(toolCalls) |->
     executeToolCall(toolCalls[i], inp.tasks, inp.projects, inp.taskTypes, now)]

ProposalReadyMessage == <<"r", "e", "a", "d", "y">>

InterpretedMessage == <<"r", "e", "a", "d">>

\* the RunScheduleAgentResult built from the payload of the final round
finalResult(payload) ==
  LET proposal == parseProposal(Field(payload, "proposal"))
      message  == Field(payload, "assistantMessage")
  IN [assistantMessage |->
        IF isString(message) /\ Trim(message.v) # <<>> THEN message.v
        ELSE IF proposal # Absent THEN ProposalReadyMessage ELSE InterpretedMessage,
      needsUserInput |-> Truthy(Field(payload, "needsUserInput")),
      question |-> IF isString(Field(payload, "userQuestion"))
                   THEN Field(payload, "userQuestion") ELSE Absent,
      proposal |-> proposal]

NoResult == [t |-> "none"]

----------------------------------------------------------------------------
(* db.ts: persistence callbacks of AppDataProvider and the undo stack. The *)
(* tasks table is a sequence in key order; a callback maps the table and   *)
(* the stack to their next values.                                         *)

MAX_UNDO_STACK == 80

UPDATE_UNDO_MERGE_WINDOW_MS == 15000

\* milliseconds of wall-clock time per tick of clock
MS_PER_TICK == 5000

\* db.tasks.get(id): the stored task, or Absent
dbGet(table, id) == find(table, id)

\* db.tasks.put(task): replaces the row with the key of task, or adds it
dbPut(table, task) ==
  IF dbGet(table, task.id) = Absent THEN Append(table, task)
  ELSE [i \in 1..Len(table) |-> IF table[i].id = task.id THEN task ELSE table[i]]

\* db.tasks.delete(id)
dbDelete(table, id) == filterSeq(table, {i \in 1..Len(table) : table[i].id # id})

\* getId("task"): a key no row has used, from the count of keys handed out
getId(counter) == "n" \o ToString(counter + 1)

isTaskStatusDone(status) == status = "DONE"

trimTaskInput(formInput) ==
  [formInput EXCEPT !.title = Trim(formInput.title), !.content = Trim(formInput.content)]

UndoEntry(kind, createdAt, taskIds, snapshots) ==
  [kind |-> kind, createdAt |-> createdAt, taskIds |-> taskIds, tasks |-> snapshots]

\* pushUndo without the slice to MAX_UNDO_STACK
pushUndo_NoCap(prev, entry, now) ==
  LET last == prev[Len(prev)] IN
  IF /\ entry.kind = "upsert_tasks" /\ Len(entry.tasks) = 1
     /\ Len(prev) > 0
     /\ last.kind = "upsert_tasks"
     /\ Len(last.tasks) = 1
     /\ last.tasks[1].id = entry.tasks[1].id
     /\ ~getTime(last.createdAt).isNaN
     /\ (now - getTime(last.createdAt).ms) * MS_PER_TICK < UPDATE_UNDO_MERGE_WINDOW_MS
  THEN prev
  ELSE Append(prev, entry)

\* the updater of setUndoStack in pushUndo
pushUndo(prev, entry, now) ==
  LET last == prev[Len(prev)] IN
  IF /\ entry.kind = "upsert_tasks" /\ Len(entry.tasks) = 1
     /\ Len(prev) > 0
     /\ last.kind = "upsert_tasks"
     /\ Len(last.tasks) = 1
     /\ last.tasks[1].id = entry.tasks[1].id
     /\ ~getTime(last.createdAt).isNaN
     /\ (now - getTime(last.createdAt).ms) * MS_PER_TICK < UPDATE_UNDO_MERGE_WINDOW_MS
  THEN prev
  ELSE LET merged == Append(prev, entry) IN
       IF Len(merged) > MAX_UNDO_STACK
       THEN SubSeq(merged, Len(merged) - MAX_UNDO_STACK + 1, Len(merged))
       ELSE merged

\* getId("recurrence"): the key of a recurrence group
getRecurrenceId(counter) == "g" \o ToString(counter + 1)

\* clampRecurrenceCount(value): value is Num of an integer, or Absent (undefined)
clampRecurrenceCount(value) ==
  IF value.t # "num" THEN 1
  ELSE IF value.v < 1 THEN 1
  ELSE IF value.v > 60 THEN 60
  ELSE value.v

\* ticks of clock in a day
TicksPerDay == (24 * 60 * 60 * 1000) \div MS_PER_TICK

\* days from a date of January 1970 to the same day step months later
RECURSIVE daysOfMonths(_)
daysOfMonths(step) ==
  LET monthLengths == <<31, 28, 31, 30, 31, 30, 31, 31, 30, 31, 30, 31>>
  IN IF step <= 0 THEN 0
     ELSE daysOfMonths(step - 1) + monthLengths[((step - 1) % 12) + 1]

\* shiftIsoByPattern(iso, pattern, step); toISOString writes the zone Z, and
\* throws on a date that is not a time (InvalidDate stands for the throw)
shiftIsoByPattern(iso, pattern, step) ==
  IF step <= 0 \/ pattern = "NONE" THEN iso
  ELSE IF getTime(iso).isNaN THEN InvalidDate
  ELSE IF pattern = "DAILY" THEN DateText("Z", getTime(iso).ms + step * TicksPerDay)
  ELSE IF pattern = "WEEKLY" THEN DateText("Z", getTime(iso).ms + step * 7 * TicksPerDay)
  ELSE DateText("Z", getTime(iso).ms + daysOfMonths(step) * TicksPerDay)

\* createTask: one record per instance of the recurrence, one bulkAdd, one
\* delete_tasks entry naming the keys of all the records
createTask(table, stack, counter, formInput, now) ==
  LET normalized == trimTaskInput(formInput)
      recurrencePattern ==
        IF "recurrencePattern" \in DOMAIN normalized THEN normalized.recurrencePattern
        ELSE "NONE"
      recurrenceCount ==
        IF recurrencePattern = "NONE" THEN 1
        ELSE clampRecurrenceCount(IF "recurrenceCount" \in DOMAIN normalized
                                  THEN normalized.recurrenceCount ELSE Absent)
      effectivePattern == IF recurrenceCount > 1 THEN recurrencePattern ELSE "NONE"
      recurrenceGroupId == IF effectivePattern = "NONE" THEN "" ELSE getRecurrenceId(counter)
      firstKey == IF effectivePattern = "NONE" THEN counter ELSE counter + 1
      hasEnd == normalized.endAt \notin {NoDate, EmptyDate}
      record(index) ==
        [id |-> getId(firstKey + index), title |-> normalized.title,
         content |-> normalized.content,
         taskTypeId |-> normalized.taskTypeId, projectId |-> normalized.projectId,
         status |-> normalized.status,
         startAt |-> shiftIsoByPattern(normalized.startAt, effectivePattern, index),
         endAt |-> IF hasEnd THEN shiftIsoByPattern(normalized.endAt, effectivePattern, index)
                   ELSE NoDate,
         isMajor |-> normalized.isMajor, createdAt |-> toIsoNow(now),
         updatedAt |-> toIsoNow(now),
         completedAt |-> IF isTaskStatusDone(normalized.status) THEN toIsoNow(now) ELSE NoDate,
         recurrencePattern |-> effectivePattern, recurrenceGroupId |-> recurrenceGroupId,
         recurrenceIndex |-> IF effectivePattern = "NONE" THEN Absent ELSE Num(index)]
      records == [k \in 1..recurrenceCount |-> record(k - 1)]
      shiftThrows ==
        /\ recurrenceCount > 1
        /\ \/ getTime(normalized.startAt).isNaN
           \/ hasEnd /\ getTime(normalized.endAt).isNaN
  IN IF shiftThrows
     THEN [dbTasks |-> table, undoStack |-> stack,
           idCounter |-> counter + 2]
     ELSE [dbTasks |-> table \o records,
           undoStack |-> pushUndo(stack,
                                  UndoEntry("delete_tasks", toIsoNow(now),
                                            [k \in 1..recurrenceCount |-> records[k].id], <<>>),
                                  now),
           idCounter |-> firstKey + recurrenceCount]

\* the fields serializeTaskForEquality compares
serializeTaskForEquality(task) ==
  [title |-> task.title, content |-> task.content, taskTypeId |-> task.taskTypeId,
   projectId |-> task.projectId, status |-> task.status, startAt |-> task.startAt,
   endAt |-> IF task.endAt = NoDate THEN EmptyDate ELSE task.endAt,
   isMajor |-> task.isMajor,
   recurrencePattern |-> IF task.recurrencePattern = "undefined" THEN "NONE"
                         ELSE task.recurrencePattern]

\* updateTask leaving completedAt as it is when the status is not DONE
updateTask_KeepCompletedAt(table, stack, counter, id, formInput, now) ==
  LET existing   == dbGet(table, id)
      normalized == trimTaskInput(formInput)
      nextTask   ==
        [existing EXCEPT
           !.title = Trim(normalized.title), !.content = Trim(normalized.content),
           !.taskTypeId = normalized.taskTypeId, !.projectId = normalized.projectId,
           !.status = normalized.status, !.startAt = normalized.startAt,
           !.endAt = IF normalized.endAt \in {NoDate, EmptyDate} THEN NoDate
                     ELSE normalized.endAt,
           !.isMajor = normalized.isMajor,
           !.completedAt = IF isTaskStatusDone(normalized.status)
                           THEN (IF existing.completedAt = NoDate THEN toIsoNow(now)
                                 ELSE existing.completedAt)
                           ELSE existing.completedAt,
           !.updatedAt = toIsoNow(now)]
      unchanged == [dbTasks |-> table, undoStack |-> stack, idCounter |-> counter]
  IN IF existing = Absent THEN unchanged
     ELSE IF serializeTaskForEquality(existing) = serializeTaskForEquality(nextTask)
     THEN unchanged
     ELSE [dbTasks |-> dbPut(table, nextTask),
           undoStack |-> pushUndo(stack,
                                  UndoEntry("upsert_tasks", toIsoNow(now), <<>>, <<existing>>),
                                  now),
           idCounter |-> counter]

updateTask(table, stack, counter, id, formInput, now) ==
  LET existing   == dbGet(table, id)
      normalized == trimTaskInput(formInput)
      nextTask   ==
        [existing EXCEPT
           !.title = Trim(normalized.title), !.content = Trim(normalized.content),
           !.taskTypeId = normalized.taskTypeId, !.projectId = normalized.projectId,
           !.status = normalized.status, !.startAt = normalized.startAt,
           !.endAt = IF normalized.endAt \in {NoDate, EmptyDate} THEN NoDate
                     ELSE normalized.endAt,
           !.isMajor = normalized.isMajor,
           !.completedAt = IF isTaskStatusDone(normalized.status)
                           THEN (IF existing.completedAt = NoDate THEN toIsoNow(now)
                                 ELSE existing.completedAt)
                           ELSE NoDate,
           !.updatedAt = toIsoNow(now)]
      unchanged == [dbTasks |-> table, undoStack |-> stack, idCounter |-> counter]
  IN IF existing = Absent THEN unchanged
     ELSE IF serializeTaskForEquality(existing) = serializeTaskForEquality(nextTask)
     THEN unchanged
     ELSE [dbTasks |-> dbPut(table, nextTask),
           undoStack |-> pushUndo(stack,
                                  UndoEntry("upsert_tasks", toIsoNow(now), <<>>, <<existing>>),
                                  now),
           idCounter |-> counter]

\* removeTask with db.tasks.clear() in place of db.tasks.delete(id)
removeTask_Clear(table, stack, counter, id, now) ==
  LET existing == dbGet(table, id) IN
  IF existing = Absent THEN [dbTasks |-> table, undoStack |-> stack, idCounter |-> counter]
  ELSE [dbTasks |-> <<>>,
        undoStack |-> pushUndo(stack,
                               UndoEntry("upsert_tasks", toIsoNow(now), <<>>, <<existing>>),
                               now),
        idCounter |-> counter]

removeTask(table, stack, counter, id, now) ==
  LET existing == dbGet(table, id) IN
  IF existing = Absent THEN [dbTasks |-> table, undoStack |-> stack, idCounter |-> counter]
  ELSE [dbTasks |-> dbDelete(table, id),
        undoStack |-> pushUndo(stack,
                               UndoEntry("upsert_tasks", toIsoNow(now), <<>>, <<existing>>),
                               now),
        idCounter |-> counter]

\* db.tasks.bulkDelete(ids)
bulkDelete(table, ids) ==
  filterSeq(table, {i \in 1..Len(table) : \A k \in 1..Len(ids) : table[i].id # ids[k]})

\* db.tasks.bulkPut(items)
RECURSIVE bulkPut(_, _)
bulkPut(table, items) ==
  IF items = <<>> THEN table ELSE bulkPut(dbPut(table, Head(items)), Tail(items))

\* undoLastChange. target is assigned inside the updater handed to
\* setUndoStack and read right after the call: React runs the updater inside
\* the call only when the provider has no update pending, and otherwise in
\* the next render, after the test of target has returned. updaterRanFirst
\* says which of the two happened; the stack is popped in both.
undoLastChange(table, stack, updaterRanFirst) ==
  IF Len(stack) = 0 THEN [dbTasks |-> table, undoStack |-> stack]
  ELSE LET target == stack[Len(stack)]
           popped == SubSeq(stack, 1, Len(stack) - 1)
       IN IF ~updaterRanFirst THEN [dbTasks |-> table, undoStack |-> popped]
          ELSE IF target.kind = "delete_tasks"
          THEN [dbTasks |-> bulkDelete(table, target.taskIds), undoStack |-> popped]
          ELSE [dbTasks |-> bulkPut(table, target.tasks), undoStack |-> popped]

----------------------------------------------------------------------------
(* AiAssistantWorkspace: the applier. taskMap, projectMap and taskTypeMap  *)
(* are the maps of the render whose handleApplyProposal is running, given  *)
(* as the lists they are built from.                                       *)

\* pendingProposal when there is none (undefined)
NoProposal == Absent

isValidIsoDate(value) == ~getTime(value).isNaN

\* `x && ...` on an optional date text: undefined and "" are falsy
isTruthyDate(value) == value \notin {NoDate, EmptyDate}

toTaskInput(task) ==
  [title |-> task.title, content |-> task.content, taskTypeId |-> task.taskTypeId,
   projectId |-> task.projectId, status |-> task.status, startAt |-> task.startAt,
   endAt |-> task.endAt, isMajor |-> task.isMajor]

formatOperationLabel(operation) ==
  IF operation.action = Str("create_task") THEN <<"create", operation.title.v>>
  ELSE IF operation.action = Str("update_task") THEN <<"update", operation.taskId.v>>
  ELSE <<"delete", operation.taskId.v>>

Threw(message) == [threw |-> TRUE, message |-> message]

\* applyCreateOperation up to the call of createTask: the error it throws, or
\* the TaskFormInput it hands to createTask
applyCreateOperation(operation, projectMap, taskTypeMap) ==
  LET endAt == IF operation.endAt = Absent THEN NoDate ELSE operation.endAt.v IN
  IF find(projectMap, operation.projectId.v) = Absent THEN Threw("ProjectNotFound")
  ELSE IF find(taskTypeMap, operation.taskTypeId.v) = Absent THEN Threw("TaskTypeNotFound")
  ELSE IF ~isValidIsoDate(operation.startAt.v) THEN Threw("InvalidStartAt")
  ELSE IF isTruthyDate(endAt) /\ ~isValidIsoDate(endAt) THEN Threw("InvalidEndAt")
  ELSE IF isTruthyDate(endAt) /\ LessThan(getTime(endAt), getTime(operation.startAt.v))
  THEN Threw("EndBeforeStart")
  ELSE [threw |-> FALSE,
        formInput |-> [title |-> operation.title.v, content |-> operation.content.v,
                       taskTypeId |-> operation.taskTypeId.v,
                       projectId |-> operation.projectId.v, status |-> operation.status.v,
                       startAt |-> operation.startAt.v, endAt |-> endAt,
                       isMajor |-> operation.isMajor.v]]

\* nextInput after the assignments of applyUpdateOperation
mergeChanges(target, changes) ==
  LET base == toTaskInput(target)
      pick(key, old) == IF isString(Field(changes, key)) THEN Field(changes, key).v ELSE old
  IN [title      |-> pick("title", base.title),
      content    |-> pick("content", base.content),
      taskTypeId |-> pick("taskTypeId", base.taskTypeId),
      projectId  |-> pick("projectId", base.projectId),
      status     |-> IF isTaskStatus(Field(changes, "status")) THEN Field(changes, "status").v
                     ELSE base.status,
      startAt    |-> pick("startAt", base.startAt),
      endAt      |-> IF Field(changes, "endAt") = Absent THEN base.endAt
                     ELSE IF Field(changes, "endAt") = Null THEN NoDate
                     ELSE Field(changes, "endAt").v,
      isMajor    |-> IF Field(changes, "isMajor").t = "bool" THEN Field(changes, "isMajor").v
                     ELSE base.isMajor]

\* applyUpdateOperation up to the call of updateTask
applyUpdateOperation(operation, taskMap, projectMap, taskTypeMap) ==
  LET target  == find(taskMap, operation.taskId.v)
      changes == operation.changes
      nextInput == mergeChanges(target, changes)
  IN IF target = Absent THEN Threw("UpdateTargetNotFound")
     ELSE IF /\ isString(Field(changes, "taskTypeId"))
             /\ find(taskTypeMap, Field(changes, "taskTypeId").v) = Absent
     THEN Threw("TaskTypeNotFound")
     ELSE IF /\ isString(Field(changes, "projectId"))
             /\ find(projectMap, Field(changes, "projectId").v) = Absent
     THEN Threw("ProjectNotFound")
     ELSE IF /\ isString(Field(changes, "startAt"))
             /\ ~isValidIsoDate(Field(changes, "startAt").v)
     THEN Threw("InvalidStartAt")
     ELSE IF /\ Field(changes, "endAt") # Absent
             /\ Field(changes, "endAt") # Null
             /\ ~isString(Field(changes, "endAt"))
     THEN Threw("EndAtBadType")
     ELSE IF /\ isString(Field(changes, "endAt"))
             /\ ~isValidIsoDate(Field(changes, "endAt").v)
     THEN Threw("InvalidEndAt")
     ELSE IF /\ isTruthyDate(nextInput.endAt)
             /\ LessThan(getTime(nextInput.endAt), getTime(nextInput.startAt))
     THEN Threw("EndBeforeStart")
     ELSE [threw |-> FALSE, formInput |-> nextInput]

\* applyDeleteOperation up to the call of removeTask
applyDeleteOperation(operation, taskMap) ==
  IF find(taskMap, operation.taskId.v) = Absent THEN Threw("DeleteTargetNotFound")
  ELSE [threw |-> FALSE]

\* the try block of handleApplyProposal for one operation: whether it threw,
\* and the tables, undo stack and id count it leaves
applyOperation(operation, run, table, stack, counter, now) ==
  LET same == [dbTasks |-> table, undoStack |-> stack, idCounter |-> counter] IN
  IF operation.action = Str("create_task")
  THEN LET checked == applyCreateOperation(operation, run.projectMap, run.taskTypeMap) IN
       IF checked.threw THEN [threw |-> TRUE, message |-> checked.message, store |-> same]
       ELSE [threw |-> FALSE, message |-> "",
             store |-> createTask(table, stack, counter, checked.formInput, now)]
  ELSE IF operation.action = Str("update_task")
  THEN LET checked == applyUpdateOperation(operation, run.taskMap, run.projectMap,
                                           run.taskTypeMap) IN
       IF checked.threw THEN [threw |-> TRUE, message |-> checked.message, store |-> same]
       ELSE [threw |-> FALSE, message |-> "",
             store |-> updateTask(table, stack, counter, operation.taskId.v,
                                  checked.formInput, now)]
  ELSE LET checked == applyDeleteOperation(operation, run.taskMap) IN
       IF checked.threw THEN [threw |-> TRUE, message |-> checked.message, store |-> same]
       ELSE [threw |-> FALSE, message |-> "",
             store |-> removeTask(table, stack, counter, operation.taskId.v, now)]

\* the catch block without the failedLogs.push
recordOutcome_DropFailure(run, index, operation, outcome) ==
  IF outcome.threw THEN run
  ELSE [run EXCEPT !.successLogs = Append(@, formatOperationLabel(operation))]

\* successLogs.push after the try block, or the catch block
recordOutcome(run, index, operation, outcome) ==
  IF outcome.threw
  THEN [run EXCEPT !.failedLogs = Append(@, <<formatOperationLabel(operation), outcome.message>>),
                   !.failedIndexSet = @ \cup {index}]
  ELSE [run EXCEPT !.successLogs = Append(@, formatOperationLabel(operation))]

\* resultText of handleApplyProposal: the counts it reports
resultTextOf(run) == [t |-> "applied", success |-> Len(run.successLogs),
                      failed |-> Len(run.failedLogs)]

\* remainingOperations keeping every selected operation, applied or not
remainingOperations_KeepApplied(run) == run.proposal.operations

\* remainingOperations: the operations not selected, and the selected that failed
remainingOperations(run) ==
  filterSeq(run.proposal.operations,
            {i \in 1..Len(run.proposal.operations) :
               i \notin run.selectedOperationSet \/ i \in run.failedIndexSet})

\* summary of the proposal of the remaining operations: the count it states
remainingSummary(n) == <<"r", "e", "m", "a", "i", "n", ToString(n)>>

\* the proposal handleApplyProposal stores when the loop is over
nextProposal(run) ==
  IF Len(remainingOperations(run)) = 0 THEN NoProposal
  ELSE [run.proposal EXCEPT !.summary = remainingSummary(Len(remainingOperations(run))),
                            !.operations = remainingOperations(run)]

----------------------------------------------------------------------------
(* The bounded inputs of the model.                                        *)

\* longest toolCalls array a response carries
MaxToolCalls == 7

\* most operations in a proposal handed to handleApplyProposal
MaxOps == 2

Task(id, title, projectId, status, startAt, endAt, updatedAt) ==
  [id |-> id, title |-> title, content |-> <<>>, taskTypeId |-> "ty1",
   projectId |-> projectId, status |-> status, startAt |-> startAt, endAt |-> endAt,
   isMajor |-> FALSE, createdAt |-> toIsoNow(0), updatedAt |-> toIsoNow(updatedAt),
   completedAt |-> IF status = "DONE" THEN toIsoNow(updatedAt) ELSE NoDate,
   recurrencePattern |-> "NONE", recurrenceGroupId |-> "", recurrenceIndex |-> Absent]

Project(id, name, isActive) == [id |-> id, name |-> name, isActive |-> isActive]

TaskType(id, name, isDefault, order) ==
  [id |-> id, name |-> name, isActive |-> TRUE, isDefault |-> isDefault, order |-> order]

DEFAULT_PROJECT_ID == "project-general"

\* the stored tasks, projects and task types the behaviours start from
InitialTasks ==
  << Task("t1", <<"R", "e">>, DEFAULT_PROJECT_ID, "NOT_DONE",
          DateText("Z", 1), DateText("Z", 2), 0),
     Task("t2", <<"W">>, "p2", "DONE", DateText("+09:00", 2), NoDate, 1) >>

InitialProjects ==
  << Project(DEFAULT_PROJECT_ID, <<"P">>, TRUE), Project("p2", <<"p", "r", "E">>, TRUE),
     Project("p3", <<"W">>, FALSE) >>

InitialTaskTypes == << TaskType("ty1", <<"w">>, TRUE, 1), TaskType("ty2", <<"e">>, FALSE, 2) >>

UserMessage == <<"m", "o", "v", "e">>

\* entries of a toolCalls array
CallSearch == Obj([tool |-> Str("search_tasks"), args |-> Obj([keyword |-> Str(<<" ", "r", "E">>)])])
CallGet == Obj([tool |-> Str("get_task"), args |-> Obj([taskId |-> Str("t1")])])
CallGetMissing == Obj([tool |-> Str("get_task"), args |-> Obj([taskId |-> Str("t9")])])
CallNow == Obj([tool |-> Str("current_datetime")])
CallProjects == Obj([tool |-> Str("list_projects"), args |-> EmptyObject])
CallTypes == Obj([tool |-> Str("list_task_types"), args |-> Str("none")])
CallUnknown == Obj([tool |-> Str("delete_all_tasks"), args |-> EmptyObject])
CallNoTool == Obj([args |-> EmptyObject])
CallNotRecord == Str("get_task")

\* a toolCalls array of MaxToolCalls entries, every third one not whitelisted
LongToolCalls ==
  [i \in 1..MaxToolCalls |->
     IF i % 3 = 0 THEN CallUnknown ELSE IF i % 2 = 0 THEN CallNow ELSE CallSearch]

\* toolCalls values with at least one whitelisted entry
EffectiveToolCalls ==
  { Arr(<<CallSearch>>),
    Arr(<<CallUnknown, CallProjects, CallNotRecord, CallGet, CallTypes, CallGetMissing>>),
    Arr(LongToolCalls) }

\* toolCalls values without any
IneffectiveToolCalls ==
  { Absent, Str("search_tasks"), Arr(<<CallUnknown, CallNotRecord, CallNoTool>>) }

\* items of a proposal's operations array
ItemCreate ==
  Obj([action |-> Str("create_task"), title |-> Str(<<"N">>), taskTypeId |-> Str("ty1"),
       projectId |-> Str(DEFAULT_PROJECT_ID), startAt |-> Str(DateText("Z", 3))])
ItemUpdate ==
  Obj([action |-> Str("update_task"), taskId |-> Str("t1"),
       changes |-> Obj([status |-> Str("DONE"), endAt |-> Null, title |-> Num(2)])])
ItemUpdateEmpty ==
  Obj([action |-> Str("update_task"), taskId |-> Str("t1"),
       changes |-> Obj([status |-> Str("CANCELLED")])])
ItemDelete == Obj([action |-> Str("delete_task"), taskId |-> Str("t2")])
ItemUnknownAction == Obj([action |-> Str("archive_task"), taskId |-> Str("t2")])

ProposalValues ==
  { Absent,
    Obj([summary |-> Str(<<"s">>), operations |-> Arr(<<ItemUpdateEmpty, ItemUnknownAction>>)]),
    Obj([summary |-> Str(<<"s">>), operations |-> Arr(<<ItemCreate>>)]),
    Obj([operations |-> Arr(<<ItemUnknownAction, ItemUpdate, ItemUpdateEmpty, ItemDelete>>)]) }

AssistantMessageValues == { Absent, Str(<<" ">>), Str(<<"o", "k">>) }

NeedsUserInputValues == { Bool(TRUE), Bool(FALSE), Str(<<"n", "o">>) }

UserQuestionValues == { Absent, Str(<<"w", "h", "o", "?">>) }

\* the objects the model may answer with: those that ask for tools (with or
\* without a proposal beside them) and those that do not
Payloads ==
  { Obj(p) : p \in [assistantMessage : {Str(<<"o", "k">>)},
                    needsUserInput : {Bool(FALSE)},
                    userQuestion : {Absent},
                    toolCalls : EffectiveToolCalls,
                    proposal : {Absent, Obj([summary |-> Str(<<"s">>),
                                             operations |-> Arr(<<ItemCreate>>)])}] }
  \cup
  { Obj(p) : p \in [assistantMessage : AssistantMessageValues,
                    needsUserInput : NeedsUserInputValues,
                    userQuestion : UserQuestionValues,
                    toolCalls : IneffectiveToolCalls,
                    proposal : ProposalValues] }

\* the texts of the model, as JSON.parse sees them
RawTexts ==
  { [syntax |-> "json", value |-> v] : v \in Payloads \cup {Arr(<<>>), Null, Num(2)} }
  \cup { [syntax |-> "garbage", value |-> Null] }

BlankText == [syntax |-> "blank", value |-> Null]

\* what a transport call can come back with
HttpOutcomes ==
  { [kind |-> "network_error", text |-> BlankText], [kind |-> "http_error", text |-> BlankText],
    [kind |-> "ok", text |-> BlankText] }
  \cup { [kind |-> "ok", text |-> r] : r \in RawTexts }

----------------------------------------------------------------------------
(* handleSend / runScheduleAgent as a state machine. The run is suspended  *)
(* only in `await requestLlmResponse`; everything between two transport    *)
(* calls is one step.                                                      *)

isLoading == agentPc = "awaiting"

\* positions 1..n of a proposal's operations (index i of the code is i + 1 here)
allIndexes(proposal) ==
  IF proposal = NoProposal THEN <<>> ELSE [i \in 1..Len(proposal.operations) |-> i]

\* what the history records of a settled transport call: how the call ended,
\* the shape of the text, the tool names its toolCalls entries carry ("" for an
\* entry without one) and whether it carries a proposal object
Receipt(http) ==
  LET top       == http.text.value
      toolCalls == IF top.t = "obj" THEN Field(top, "toolCalls") ELSE Absent
  IN [transport |-> http.kind,
      syntax    |-> http.text.syntax,
      top       |-> top.t,
      named     |-> IF toolCalls.t = "arr"
                    THEN [i \in 1..Len(toolCalls.v) |->
                            IF toolCalls.v[i].t = "obj"
                               /\ Field(toolCalls.v[i], "tool").t = "str"
                            THEN Field(toolCalls.v[i], "tool").v ELSE ""]
                    ELSE <<>>,
      proposed  |-> top.t = "obj" /\ Field(top, "proposal").t = "obj"]

\* handleSend up to the first transport call of runScheduleAgent
handleSend ==
  /\ agentPc = "idle"
  /\ UserMessage # <<>>
  /\ ~isLoading
  /\ error' = ""
  /\ applyResult' = NoResult
  /\ input' = [userMessage |-> UserMessage, tasks |-> tasks, projects |-> projects,
               taskTypes |-> taskTypes]
  /\ accumulatedToolResults' = <<>>
  /\ round' = 0
  /\ sentPrompts' = <<buildPromptMessages(input', <<>>, clock)>>
  /\ received' = <<>>
  /\ roundResults' = <<>>
  /\ finalPayload' = NoResult
  /\ agentPc' = "awaiting"
  /\ agentResult' = NoResult
  /\ agentError' = ""
  /\ UNCHANGED <<clock, storeVars, tasks, projects, taskTypes, pendingProposal,
                 selectedOperationIndexes, isApplying, applyRun>>

\* the catch branch of handleSend after runScheduleAgent threw
RunThrows(message, receipt) ==
  /\ agentPc' = "failed"
  /\ agentError' = message
  /\ error' = message
  /\ received' = Append(received, receipt)
  /\ roundResults' = Append(roundResults, <<>>)
  /\ clock' = clock + 1
  /\ UNCHANGED <<round, input, accumulatedToolResults, agentResult, sentPrompts, finalPayload,
                 storeVars, tasks, projects, taskTypes, pendingProposal,
                 selectedOperationIndexes, isApplying, applyResult, applyRun>>

\* requestLlmResponse rejects
TransportFails(http) ==
  /\ agentPc = "awaiting"
  /\ requestLlmResponse(http).threw
  /\ RunThrows(requestLlmResponse(http).error, Receipt(http))

\* parseModelPayload throws
ProtocolFails(http) ==
  /\ agentPc = "awaiting"
  /\ ~requestLlmResponse(http).threw
  /\ parseModelPayload(requestLlmResponse(http).text).threw
  /\ RunThrows(parseModelPayload(requestLlmResponse(http).text).error, Receipt(http))

\* the round executes its tool calls and the loop goes on to the next round,
\* or leaves the loop and throws when no round is left
ToolRound(http) ==
  /\ agentPc = "awaiting"
  /\ ~requestLlmResponse(http).threw
  /\ ~parseModelPayload(requestLlmResponse(http).text).threw
  /\ LET payload == parseModelPayload(requestLlmResponse(http).text).payload
         results == executeRound(payload, input, clock + 1)
     IN /\ takesToolBranch(payload)
        /\ clock' = clock + 1
        /\ accumulatedToolResults' = accumulatedToolResults \o results
        /\ round' = round + 1
        /\ received' = Append(received, Receipt(http))
        /\ roundResults' = Append(roundResults, results)
        /\ IF loopContinues(round + 1)
           THEN /\ sentPrompts' = Append(sentPrompts,
                       buildPromptMessages(input, accumulatedToolResults', clock + 1))
                /\ UNCHANGED <<agentPc, agentError, error>>
           ELSE /\ agentPc' = "failed"
                /\ agentError' = "NoFinalProposal"
                /\ error' = "NoFinalProposal"
                /\ UNCHANGED sentPrompts
        /\ UNCHANGED <<input, agentResult, finalPayload, storeVars, tasks, projects, taskTypes,
                       pendingProposal, selectedOperationIndexes, isApplying, applyResult,
                       applyRun>>

\* the round has no tool call: runScheduleAgent returns and handleSend stores
\* the proposal; the effect on pendingProposal selects every operation
FinalRound(http) ==
  /\ agentPc = "awaiting"
  /\ ~requestLlmResponse(http).threw
  /\ ~parseModelPayload(requestLlmResponse(http).text).threw
  /\ LET payload == parseModelPayload(requestLlmResponse(http).text).payload
     IN /\ ~takesToolBranch(payload)
        /\ clock' = clock + 1
        /\ agentResult' = finalResult(payload)
        /\ agentPc' = "returned"
        /\ received' = Append(received, Receipt(http))
        /\ roundResults' = Append(roundResults, <<>>)
        /\ finalPayload' = payload
        /\ pendingProposal' = agentResult'.proposal
        /\ selectedOperationIndexes' = allIndexes(pendingProposal')
        /\ UNCHANGED <<round, input, accumulatedToolResults, agentError, sentPrompts,
                       storeVars, tasks, projects, taskTypes, isApplying, error, applyResult,
                       applyRun>>

\* applyRun while no handleApplyProposal has been called
NoApplyRun ==
  [pc |-> "none", proposal |-> NoProposal, selectedOperationSet |-> {}, taskMap |-> <<>>,
   projectMap |-> <<>>, taskTypeMap |-> <<>>, indexesToApply |-> <<>>, pos |-> 1,
   successLogs |-> <<>>, failedLogs |-> <<>>, failedIndexSet |-> {}, attempted |-> <<>>,
   storedProjects |-> <<>>]

InitAgent ==
  /\ agentPc = "idle"
  /\ round = 0
  /\ input = [userMessage |-> <<>>, tasks |-> <<>>, projects |-> <<>>, taskTypes |-> <<>>]
  /\ accumulatedToolResults = <<>>
  /\ agentResult = NoResult
  /\ agentError = ""
  /\ clock = 1
  /\ sentPrompts = <<>>
  /\ received = <<>>
  /\ roundResults = <<>>
  /\ finalPayload = NoResult
  /\ dbTasks = InitialTasks
  /\ dbProjects = InitialProjects
  /\ dbTaskTypes = InitialTaskTypes
  /\ undoStack = <<>>
  /\ idCounter = 0
  /\ projectDeletion = ""
  /\ tasks = InitialTasks
  /\ projects = InitialProjects
  /\ taskTypes = InitialTaskTypes
  /\ pendingProposal = NoProposal
  /\ selectedOperationIndexes = <<>>
  /\ isApplying = FALSE
  /\ error = ""
  /\ applyResult = NoResult
  /\ applyRun = NoApplyRun

NextAgent ==
  \/ handleSend
  \/ \E http \in HttpOutcomes : TransportFails(http)
  \/ \E http \in HttpOutcomes : ProtocolFails(http)
  \/ \E http \in HttpOutcomes : ToolRound(http)
  \/ \E http \in HttpOutcomes : FinalRound(http)

\* one agent run from the initial store
SpecAgent == InitAgent /\ [][NextAgent]_vars

----------------------------------------------------------------------------
(* handleApplyProposal as a state machine. The handler is suspended in the *)
(* await of each operation; one step applies one operation, and the step   *)
(* of the last operation runs the rest of the handler. Beside it the user  *)
(* toggles checkboxes and deletes projects, and the live queries deliver   *)
(* the tables to the next render.                                          *)

\* items of the operations array of the proposals handed to the applier
ItemCreateInP3 ==
  Obj([action |-> Str("create_task"), title |-> Str(<<" ", "M">>), taskTypeId |-> Str("ty2"),
       projectId |-> Str("p3"), startAt |-> Str(DateText("Z", 3)),
       endAt |-> Str(DateText("+09:00", 3)), status |-> Str("DONE")])
ItemCreateEndBeforeStart ==
  Obj([action |-> Str("create_task"), title |-> Str(<<"L">>), taskTypeId |-> Str("ty1"),
       projectId |-> Str(DEFAULT_PROJECT_ID), startAt |-> Str(DateText("Z", 3)),
       endAt |-> Str(DateText("Z", 2))])
ItemMoveToP3 ==
  Obj([action |-> Str("update_task"), taskId |-> Str("t1"),
       changes |-> Obj([projectId |-> Str("p3")])])
ItemUpdateMissing ==
  Obj([action |-> Str("update_task"), taskId |-> Str("t9"),
       changes |-> Obj([title |-> Str(<<"X">>)])])

ApplyItems ==
  { ItemCreate, ItemCreateInP3, ItemCreateEndBeforeStart, ItemUpdate, ItemMoveToP3,
    ItemUpdateMissing, ItemDelete }

\* the proposals a run can return for operations arrays of 1..MaxOps items
ApplyProposals ==
  { parseProposal(Obj([summary |-> Str(<<"s">>), operations |-> Arr(items)])) :
      items \in UNION { [1..n -> ApplyItems] : n \in 1..MaxOps } }

\* indexesToApply without the filter on the selection
indexesToApplyOf_All(proposal, selectedOperationSet) == allIndexes(proposal)

\* indexesToApply of handleApplyProposal: the selected indices in list order
indexesToApplyOf(proposal, selectedOperationSet) ==
  filterSeq(allIndexes(proposal),
            {i \in 1..Len(proposal.operations) : i \in selectedOperationSet})

\* onChange of the checkbox of operation index
toggleOperation(index) ==
  /\ pendingProposal # NoProposal
  /\ index \in 1..Len(pendingProposal.operations)
  /\ LET prev == selectedOperationIndexes
         isSelected == \E k \in 1..Len(prev) : prev[k] = index
     IN selectedOperationIndexes' =
          IF isSelected THEN filterSeq(prev, {k \in 1..Len(prev) : prev[k] # index})
          ELSE LET before == filterSeq(prev, {k \in 1..Len(prev) : prev[k] < index})
                   after  == filterSeq(prev, {k \in 1..Len(prev) : prev[k] > index})
               IN before \o <<index>> \o after
  /\ UNCHANGED <<agentVars, storeVars, tasks, projects, taskTypes, pendingProposal,
                 isApplying, error, applyResult, applyRun>>

\* handleApplyProposal from the click on the apply button to the first await
handleApplyProposal ==
  /\ pendingProposal # NoProposal
  /\ ~isApplying
  /\ Len(selectedOperationIndexes) > 0
  /\ LET selectedOperationSet ==
           {selectedOperationIndexes[k] : k \in 1..Len(selectedOperationIndexes)}
         indexesToApply == indexesToApplyOf(pendingProposal, selectedOperationSet)
     IN IF Len(indexesToApply) = 0
        THEN /\ error' = "NothingSelected"
             /\ UNCHANGED <<isApplying, applyRun>>
        ELSE /\ error' = ""
             /\ isApplying' = TRUE
             /\ applyRun' =
                  [pc |-> "applying", proposal |-> pendingProposal,
                   selectedOperationSet |-> selectedOperationSet,
                   taskMap |-> tasks, projectMap |-> projects, taskTypeMap |-> taskTypes,
                   indexesToApply |-> indexesToApply, pos |-> 1,
                   successLogs |-> <<>>, failedLogs |-> <<>>, failedIndexSet |-> {},
                   attempted |-> <<>>, storedProjects |-> dbProjects]
  /\ UNCHANGED <<agentVars, storeVars, tasks, projects, taskTypes, pendingProposal,
                 selectedOperationIndexes, applyResult>>

\* ApplyOperation with the selection emptied when the handler ends
ApplyOperation_SelectNone ==
  /\ applyRun.pc = "applying"
  /\ LET index     == applyRun.indexesToApply[applyRun.pos]
         operation == applyRun.proposal.operations[index]
         outcome   == applyOperation(operation, applyRun, dbTasks, undoStack, idCounter, clock)
         recorded  == recordOutcome(applyRun, index, operation, outcome)
         isLast    == applyRun.pos = Len(applyRun.indexesToApply)
     IN /\ dbTasks' = outcome.store.dbTasks
        /\ undoStack' = outcome.store.undoStack
        /\ idCounter' = outcome.store.idCounter
        /\ applyRun' = [recorded EXCEPT !.pos = @ + 1,
                                        !.attempted = Append(@, index),
                                        !.pc = IF isLast THEN "done" ELSE "applying"]
        /\ IF isLast
           THEN /\ applyResult' = resultTextOf(recorded)
                /\ pendingProposal' = nextProposal(recorded)
                /\ selectedOperationIndexes' = <<>>
                /\ isApplying' = FALSE
           ELSE UNCHANGED <<applyResult, pendingProposal, selectedOperationIndexes, isApplying>>
  /\ UNCHANGED <<agentVars, dbProjects, dbTaskTypes, projectDeletion, tasks, projects,
                 taskTypes, error>>

\* one iteration of the for loop of handleApplyProposal and, after the last
\* one, the rest of the handler
ApplyOperation ==
  /\ applyRun.pc = "applying"
  /\ LET index     == applyRun.indexesToApply[applyRun.pos]
         operation == applyRun.proposal.operations[index]
         outcome   == applyOperation(operation, applyRun, dbTasks, undoStack, idCounter, clock)
         recorded  == recordOutcome(applyRun, index, operation, outcome)
         isLast    == applyRun.pos = Len(applyRun.indexesToApply)
     IN /\ dbTasks' = outcome.store.dbTasks
        /\ undoStack' = outcome.store.undoStack
        /\ idCounter' = outcome.store.idCounter
        /\ applyRun' = [recorded EXCEPT !.pos = @ + 1,
                                        !.attempted = Append(@, index),
                                        !.pc = IF isLast THEN "done" ELSE "applying"]
        /\ IF isLast
           THEN /\ applyResult' = resultTextOf(recorded)
                /\ pendingProposal' = nextProposal(recorded)
                /\ selectedOperationIndexes' = allIndexes(pendingProposal')
                /\ isApplying' = FALSE
           ELSE UNCHANGED <<applyResult, pendingProposal, selectedOperationIndexes, isApplying>>
  /\ UNCHANGED <<agentVars, dbProjects, dbTaskTypes, projectDeletion, tasks, projects,
                 taskTypes, error>>

\* deleteProject up to the await of db.projects.delete
deleteProjectCount(id) ==
  /\ projectDeletion = ""
  /\ find(projects, id) # Absent
  /\ id # DEFAULT_PROJECT_ID
  /\ {i \in 1..Len(dbTasks) : dbTasks[i].projectId = id} = {}
  /\ projectDeletion' = id
  /\ UNCHANGED <<agentVars, dbTasks, dbProjects, dbTaskTypes, undoStack, idCounter, uiVars,
                 applyRun>>

\* db.projects.delete(id) of deleteProject
deleteProjectDelete ==
  /\ projectDeletion # ""
  /\ dbProjects' = dbDelete(dbProjects, projectDeletion)
  /\ projectDeletion' = ""
  /\ UNCHANGED <<agentVars, dbTasks, dbTaskTypes, undoStack, idCounter, uiVars, applyRun>>

\* a live query delivers its table and the workspace renders with it
liveQueryTasks ==
  /\ tasks # dbTasks
  /\ tasks' = dbTasks
  /\ UNCHANGED <<agentVars, storeVars, projects, taskTypes, pendingProposal,
                 selectedOperationIndexes, isApplying, error, applyResult, applyRun>>

liveQueryProjects ==
  /\ projects # dbProjects
  /\ projects' = dbProjects
  /\ UNCHANGED <<agentVars, storeVars, tasks, taskTypes, pendingProposal,
                 selectedOperationIndexes, isApplying, error, applyResult, applyRun>>

\* the workspace after a run returned proposal
InitApply ==
  /\ pendingProposal \in ApplyProposals
  /\ selectedOperationIndexes = allIndexes(pendingProposal)
  /\ agentPc = "returned"
  /\ round = 0
  /\ input = [userMessage |-> UserMessage, tasks |-> InitialTasks,
              projects |-> InitialProjects, taskTypes |-> InitialTaskTypes]
  /\ accumulatedToolResults = <<>>
  /\ agentResult = [assistantMessage |-> ProposalReadyMessage, needsUserInput |-> FALSE,
                    question |-> Absent, proposal |-> pendingProposal]
  /\ agentError = ""
  /\ clock = 1
  /\ sentPrompts = <<>>
  /\ received = <<>>
  /\ roundResults = <<>>
  /\ finalPayload = NoResult
  /\ dbTasks = InitialTasks
  /\ dbProjects = InitialProjects
  /\ dbTaskTypes = InitialTaskTypes
  /\ undoStack = <<>>
  /\ idCounter = 0
  /\ projectDeletion = ""
  /\ tasks = InitialTasks
  /\ projects = InitialProjects
  /\ taskTypes = InitialTaskTypes
  /\ isApplying = FALSE
  /\ error = ""
  /\ applyResult = NoResult
  /\ applyRun = NoApplyRun

NextApply ==
  \/ \E index \in 1..MaxOps : toggleOperation(index)
  \/ handleApplyProposal
  \/ ApplyOperation
  \/ \E id \in {"p2", "p3"} : deleteProjectCount(id)
  \/ deleteProjectDelete
  \/ liveQueryTasks
  \/ liveQueryProjects

\* the application of one returned proposal, beside project deletions
SpecApply == InitApply /\ [][NextApply]_vars

----------------------------------------------------------------------------
(* The workspace with both handlers: an agent run beside the application   *)
(* of the proposal an earlier run left pending. Neither handler tests the  *)
(* flag of the other (handleSend tests isLoading, handleApplyProposal      *)
(* tests isApplying), so their steps interleave freely.                    *)

\* the proposals left pending by the earlier run
WorkspaceProposals ==
  { parseProposal(Obj([summary |-> Str(<<"s">>), operations |-> Arr(items)])) :
      items \in { <<ItemUpdate, ItemDelete>>, <<ItemCreate, ItemCreateInP3>>,
                  <<ItemDelete, ItemMoveToP3>> } }

\* the payloads of the run beside the application
WorkspacePayloads ==
  { Obj([assistantMessage |-> Str(<<"o", "k">>), toolCalls |-> Arr(<<CallGet, CallSearch>>)]),
    Obj([assistantMessage |-> Str(<<"o", "k">>),
         proposal |-> Obj([summary |-> Str(<<"s">>), operations |-> Arr(<<ItemUpdate>>)])]),
    Obj([assistantMessage |-> Str(<<"o", "k">>), needsUserInput |-> Bool(TRUE),
         userQuestion |-> Str(<<"w", "h", "o", "?">>)]) }

WorkspaceHttpOutcomes ==
  { [kind |-> "http_error", text |-> BlankText],
    [kind |-> "ok", text |-> [syntax |-> "garbage", value |-> Null]] }
  \cup { [kind |-> "ok", text |-> [syntax |-> "json", value |-> v]] : v \in WorkspacePayloads }

InitWorkspace ==
  /\ pendingProposal \in WorkspaceProposals
  /\ selectedOperationIndexes = allIndexes(pendingProposal)
  /\ agentPc = "idle"
  /\ round = 0
  /\ input = [userMessage |-> <<>>, tasks |-> <<>>, projects |-> <<>>, taskTypes |-> <<>>]
  /\ accumulatedToolResults = <<>>
  /\ agentResult = NoResult
  /\ agentError = ""
  /\ clock = 1
  /\ sentPrompts = <<>>
  /\ received = <<>>
  /\ roundResults = <<>>
  /\ finalPayload = NoResult
  /\ dbTasks = InitialTasks
  /\ dbProjects = InitialProjects
  /\ dbTaskTypes = InitialTaskTypes
  /\ undoStack = <<>>
  /\ idCounter = 0
  /\ projectDeletion = ""
  /\ tasks = InitialTasks
  /\ projects = InitialProjects
  /\ taskTypes = InitialTaskTypes
  /\ isApplying = FALSE
  /\ error = ""
  /\ applyResult = NoResult
  /\ applyRun = NoApplyRun

NextWorkspace ==
  \/ handleSend
  \/ \E http \in WorkspaceHttpOutcomes : TransportFails(http)
  \/ \E http \in WorkspaceHttpOutcomes : ProtocolFails(http)
  \/ \E http \in WorkspaceHttpOutcomes : ToolRound(http)
  \/ \E http \in WorkspaceHttpOutcomes : FinalRound(http)
  \/ handleApplyProposal
  \/ ApplyOperation
  \/ liveQueryTasks

\* one agent run beside the application of a pending proposal
SpecWorkspace == InitWorkspace /\ [][NextWorkspace]_vars

----------------------------------------------------------------------------
(* The callbacks of AppDataProvider called from the task forms and the     *)
(* undo button, with the wall clock advancing between the calls.           *)

\* the wall clock stops here
MaxClock == 4

\* a call that may push an entry is made only below this depth of the stack
MaxUndoDepth == 2

\* createTask is called only while fewer keys than this were handed out
MaxKeys == 1

\* most instances a recurring creation asks for
MaxRecurrence == 3

TaskFormInput(title, status, recurrencePattern, recurrenceCount) ==
  [title |-> title, content |-> <<>>, taskTypeId |-> "ty1", projectId |-> DEFAULT_PROJECT_ID,
   status |-> status, startAt |-> DateText("Z", 1), endAt |-> DateText("Z", 2),
   isMajor |-> FALSE, recurrencePattern |-> recurrencePattern,
   recurrenceCount |-> Num(recurrenceCount)]

\* what the creation form submits
CreateForms ==
  { TaskFormInput(<<"N">>, "NOT_DONE", "NONE", 1),
    TaskFormInput(<<"N">>, "NOT_DONE", "WEEKLY", 2),
    TaskFormInput(<<"N">>, "DONE", "MONTHLY", MaxRecurrence) }

\* what the edit form submits
UpdateForms ==
  { TaskFormInput(<<"A">>, "NOT_DONE", "NONE", 1),
    TaskFormInput(<<"B">>, "DONE", "NONE", 1) }

\* the keys the edit form and the delete button are used on
UndoTaskIds == {"t1", getId(0)}

CallCreateTask(formInput) ==
  /\ idCounter < MaxKeys
  /\ Len(undoStack) < MaxUndoDepth
  /\ LET store == createTask(dbTasks, undoStack, idCounter, formInput, clock)
     IN /\ dbTasks' = store.dbTasks
        /\ undoStack' = store.undoStack
        /\ idCounter' = store.idCounter
  /\ UNCHANGED <<agentVars, dbProjects, dbTaskTypes, projectDeletion, uiVars, applyRun>>

CallUpdateTask(id, formInput) ==
  /\ Len(undoStack) < MaxUndoDepth
  /\ LET store == updateTask(dbTasks, undoStack, idCounter, id, formInput, clock)
     IN /\ dbTasks' = store.dbTasks
        /\ undoStack' = store.undoStack
        /\ idCounter' = store.idCounter
  /\ UNCHANGED <<agentVars, dbProjects, dbTaskTypes, projectDeletion, uiVars, applyRun>>

CallRemoveTask(id) ==
  /\ Len(undoStack) < MaxUndoDepth
  /\ LET store == removeTask(dbTasks, undoStack, idCounter, id, clock)
     IN /\ dbTasks' = store.dbTasks
        /\ undoStack' = store.undoStack
        /\ idCounter' = store.idCounter
  /\ UNCHANGED <<agentVars, dbProjects, dbTaskTypes, projectDeletion, uiVars, applyRun>>

\* the click on the undo button, enabled while canUndo
CallUndoLastChange(updaterRanFirst) ==
  /\ Len(undoStack) > 0
  /\ LET store == undoLastChange(dbTasks, undoStack, updaterRanFirst)
     IN /\ dbTasks' = store.dbTasks
        /\ undoStack' = store.undoStack
  /\ UNCHANGED <<agentVars, dbProjects, dbTaskTypes, idCounter, projectDeletion, uiVars,
                 applyRun>>

\* MS_PER_TICK milliseconds pass
Tick ==
  /\ clock < MaxClock
  /\ clock' = clock + 1
  /\ UNCHANGED <<agentPc, round, input, accumulatedToolResults, agentResult, agentError,
                 sentPrompts, received, roundResults, finalPayload, storeVars, uiVars,
                 applyRun>>

NextUndo ==
  \/ \E formInput \in CreateForms : CallCreateTask(formInput)
  \/ \E id \in UndoTaskIds, formInput \in UpdateForms : CallUpdateTask(id, formInput)
  \/ \E id \in UndoTaskIds : CallRemoveTask(id)
  \/ \E updaterRanFirst \in BOOLEAN : CallUndoLastChange(updaterRanFirst)
  \/ Tick

\* the task forms and the undo button on the initial store
SpecUndo == InitAgent /\ [][NextUndo]_vars

----------------------------------------------------------------------------
(* The task forms used until the undo stack is full and beyond.            *)

\* creations made after the one that fills the stack
MaxOverflow == 2

\* the creation form, submitted while the table holds no task created before
FillCreateTask ==
  /\ idCounter < (MAX_UNDO_STACK \div 2) + MaxOverflow
  /\ Len(dbTasks) <= Len(InitialTasks)
  /\ LET store == createTask(dbTasks, undoStack, idCounter,
                             TaskFormInput(<<"N">>, "NOT_DONE", "NONE", 1), clock)
     IN /\ dbTasks' = store.dbTasks
        /\ undoStack' = store.undoStack
        /\ idCounter' = store.idCounter
  /\ UNCHANGED <<agentVars, dbProjects, dbTaskTypes, projectDeletion, uiVars, applyRun>>

\* the delete button of the task created last
FillRemoveTask ==
  /\ idCounter > 0
  /\ LET store == removeTask(dbTasks, undoStack, idCounter, getId(idCounter - 1), clock)
     IN /\ dbTasks' = store.dbTasks
        /\ undoStack' = store.undoStack
        /\ idCounter' = store.idCounter
  /\ UNCHANGED <<agentVars, dbProjects, dbTaskTypes, projectDeletion, uiVars, applyRun>>

\* the edit form of task t1, used once the stack is one entry from full
FullUpdateTask(formInput) ==
  /\ Len(undoStack) >= MAX_UNDO_STACK - 1
  /\ LET store == updateTask(dbTasks, undoStack, idCounter, "t1", formInput, clock)
     IN /\ dbTasks' = store.dbTasks
        /\ undoStack' = store.undoStack
        /\ idCounter' = store.idCounter
  /\ UNCHANGED <<agentVars, dbProjects, dbTaskTypes, projectDeletion, uiVars, applyRun>>

\* the delete button of task t1, used once the stack is one entry from full
FullRemoveTask ==
  /\ Len(undoStack) >= MAX_UNDO_STACK - 1
  /\ LET store == removeTask(dbTasks, undoStack, idCounter, "t1", clock)
     IN /\ dbTasks' = store.dbTasks
        /\ undoStack' = store.undoStack
        /\ idCounter' = store.idCounter
  /\ UNCHANGED <<agentVars, dbProjects, dbTaskTypes, projectDeletion, uiVars, applyRun>>

NextStack ==
  \/ FillCreateTask
  \/ FillRemoveTask
  \/ \E formInput \in UpdateForms : FullUpdateTask(formInput)
  \/ FullRemoveTask

\* the forms on the initial store until the stack has overflowed
SpecStack == InitAgent /\ [][NextStack]_vars

----------------------------------------------------------------------------
(* db.ts: the callbacks on projects and task types, beside the task forms  *)
(* and the undo button.                                                    *)

\* upsertProject and upsertTaskType add a row only while fewer keys than this
\* were handed out
MaxCatalogKeys == 2

\* a ProjectInput or TaskTypeInput; id "" is an input without id
CatalogInput(id, name, isActive) == [id |-> id, name |-> name, isActive |-> isActive]

\* upsertProject that pushes an undo entry for the row it writes
upsertProject_Undoable(table, stack, counter, formInput, now) ==
  LET name      == Trim(formInput.name)
      existing  == find(table, formInput.id)
      unchanged == [dbProjects |-> table, undoStack |-> stack, idCounter |-> counter]
      pushed    == Append(stack, UndoEntry("delete_tasks", toIsoNow(now), <<>>, <<>>))
  IN IF name = <<>> THEN unchanged
     ELSE IF formInput.id # ""
     THEN IF existing = Absent THEN unchanged
          ELSE [dbProjects |-> dbPut(table, [existing EXCEPT !.name = name,
                                                              !.isActive = formInput.isActive]),
                undoStack |-> pushed, idCounter |-> counter]
     ELSE [dbProjects |-> Append(table, Project(getId(counter), name, formInput.isActive)),
           undoStack |-> pushed, idCounter |-> counter + 1]

\* upsertProject: the projects table, the undo stack and the count of keys
\* after the call (a blank name throws before anything is written)
upsertProject(table, stack, counter, formInput, now) ==
  LET name      == Trim(formInput.name)
      existing  == find(table, formInput.id)
      unchanged == [dbProjects |-> table, undoStack |-> stack, idCounter |-> counter]
  IN IF name = <<>> THEN unchanged
     ELSE IF formInput.id # ""
     THEN IF existing = Absent THEN unchanged
          ELSE [dbProjects |-> dbPut(table, [existing EXCEPT !.name = name,
                                                              !.isActive = formInput.isActive]),
                undoStack |-> stack, idCounter |-> counter]
     ELSE [dbProjects |-> Append(table, Project(getId(counter), name, formInput.isActive)),
           undoStack |-> stack, idCounter |-> counter + 1]

\* the greatest order of a task type, 0 for an empty table
RECURSIVE highestOrder(_)
highestOrder(table) ==
  IF table = <<>> THEN 0
  ELSE LET rest == highestOrder(Tail(table))
       IN IF Head(table).order > rest THEN Head(table).order ELSE rest

\* upsertTaskType
upsertTaskType(table, stack, counter, formInput, now) ==
  LET name      == Trim(formInput.name)
      existing  == find(table, formInput.id)
      unchanged == [dbTaskTypes |-> table, undoStack |-> stack, idCounter |-> counter]
  IN IF name = <<>> THEN unchanged
     ELSE IF formInput.id # ""
     THEN IF existing = Absent THEN unchanged
          ELSE [dbTaskTypes |-> dbPut(table, [existing EXCEPT !.name = name,
                                                               !.isActive = formInput.isActive]),
                undoStack |-> stack, idCounter |-> counter]
     ELSE [dbTaskTypes |->
             Append(table, [TaskType(getId(counter), name, FALSE, highestOrder(table) + 1)
                              EXCEPT !.isActive = formInput.isActive]),
           undoStack |-> stack, idCounter |-> counter + 1]

\* deleteTaskType: the task types table after the call (throws, writing
\* nothing, for the default type and for a type a task uses)
deleteTaskType(table, taskTable, id) ==
  LET type == find(table, id) IN
  IF type = Absent THEN table
  ELSE IF type.isDefault THEN table
  ELSE IF {i \in 1..Len(taskTable) : taskTable[i].taskTypeId = id} # {} THEN table
  ELSE dbDelete(table, id)

\* whether deleteTaskType throws
deleteTaskTypeThrows(table, taskTable, id) ==
  LET type == find(table, id) IN
  IF type = Absent THEN FALSE
  ELSE IF type.isDefault THEN TRUE
  ELSE {i \in 1..Len(taskTable) : taskTable[i].taskTypeId = id} # {}

\* deleteProject deleting the project whatever the tasks that use it
deleteProject_NoCount(table, taskTable, id) ==
  IF id = DEFAULT_PROJECT_ID THEN [threw |-> TRUE, dbProjects |-> table]
  ELSE [threw |-> FALSE, dbProjects |-> dbDelete(table, id)]

\* deleteProject when no other callback runs between its awaits: whether it
\* throws, and the projects table after the call
deleteProject(table, taskTable, id) ==
  IF id = DEFAULT_PROJECT_ID THEN [threw |-> TRUE, dbProjects |-> table]
  ELSE IF {i \in 1..Len(taskTable) : taskTable[i].projectId = id} # {}
  THEN [threw |-> TRUE, dbProjects |-> table]
  ELSE [threw |-> FALSE, dbProjects |-> dbDelete(table, id)]

\* what the project form submits
ProjectInputs ==
  { CatalogInput("p2", <<"Q">>, FALSE), CatalogInput("", <<"Z">>, TRUE),
    CatalogInput("p2", <<" ">>, TRUE), CatalogInput("p9", <<"Q">>, TRUE) }

\* what the task type form submits
TaskTypeInputs ==
  { CatalogInput("ty2", <<"v">>, FALSE), CatalogInput("", <<"u">>, TRUE) }

CallUpsertProject(formInput) ==
  /\ formInput.id = "" => idCounter < MaxCatalogKeys
  /\ LET store == upsertProject(dbProjects, undoStack, idCounter, formInput, clock)
     IN /\ dbProjects' = store.dbProjects
        /\ undoStack' = store.undoStack
        /\ idCounter' = store.idCounter
  /\ UNCHANGED <<agentVars, dbTasks, dbTaskTypes, projectDeletion, uiVars, applyRun>>

CallUpsertTaskType(formInput) ==
  /\ formInput.id = "" => idCounter < MaxCatalogKeys
  /\ LET store == upsertTaskType(dbTaskTypes, undoStack, idCounter, formInput, clock)
     IN /\ dbTaskTypes' = store.dbTaskTypes
        /\ undoStack' = store.undoStack
        /\ idCounter' = store.idCounter
  /\ UNCHANGED <<agentVars, dbTasks, dbProjects, projectDeletion, uiVars, applyRun>>

CallDeleteTaskType(id) ==
  /\ dbTaskTypes' = deleteTaskType(dbTaskTypes, dbTasks, id)
  /\ UNCHANGED <<agentVars, dbTasks, dbProjects, undoStack, idCounter, projectDeletion, uiVars,
                 applyRun>>

NextCatalog ==
  \/ \E formInput \in ProjectInputs : CallUpsertProject(formInput)
  \/ \E id \in {"p2", "p3"} : deleteProjectCount(id)
  \/ deleteProjectDelete
  \/ \E formInput \in TaskTypeInputs : CallUpsertTaskType(formInput)
  \/ \E id \in {"ty1", "ty2"} : CallDeleteTaskType(id)
  \/ \E formInput \in CreateForms : CallCreateTask(formInput)
  \/ \E id \in UndoTaskIds, formInput \in UpdateForms : CallUpdateTask(id, formInput)
  \/ \E id \in UndoTaskIds : CallRemoveTask(id)
  \/ \E updaterRanFirst \in BOOLEAN : CallUndoLastChange(updaterRanFirst)

\* the forms of tasks, projects and task types and the undo button
SpecCatalog == InitAgent /\ [][NextCatalog]_vars

----------------------------------------------------------------------------
(* A run that returns a proposal, then the selection and the application   *)
(* of that proposal.                                                       *)

\* most operations in a proposal the run returns
MaxOrderOps == 3

\* the responses of the run: valid items between items that yield no operation
OrderPayloads ==
  { Obj([assistantMessage |-> Str(<<"o", "k">>),
         proposal |-> Obj([summary |-> Str(<<"s">>), operations |-> Arr(items)])]) :
      items \in { <<ItemUnknownAction, ItemUpdateMissing, ItemUpdateEmpty, ItemDelete,
                    ItemUpdate>>,
                  <<ItemDelete, ItemUnknownAction, ItemCreateInP3, ItemCreate>>,
                  <<ItemUpdateEmpty, ItemUnknownAction>> } }

OrderHttpOutcomes ==
  { [kind |-> "ok", text |-> [syntax |-> "json", value |-> v]] : v \in OrderPayloads }

NextOrder ==
  \/ handleSend
  \/ \E http \in OrderHttpOutcomes : FinalRound(http)
  \/ \E index \in 1..MaxOrderOps : toggleOperation(index)
  \/ handleApplyProposal
  \/ ApplyOperation
  \/ liveQueryTasks

\* from the empty workspace: one run, then the application of its proposal
SpecOrder == InitAgent /\ [][NextOrder]_vars

----------------------------------------------------------------------------
(* Properties of the agent run.                                            *)

ToolWhitelist ==
  {"list_projects", "list_task_types", "search_tasks", "get_task", "current_datetime"}

\* the whitelisted tool names of a response, in the order of its toolCalls
RECURSIVE WhitelistedNames(_)
WhitelistedNames(named) ==
  IF named = <<>> THEN <<>>
  ELSE (IF Head(named) \in ToolWhitelist THEN <<Head(named)>> ELSE <<>>)
       \o WhitelistedNames(Tail(named))

IsTransportError(receipt) == receipt.transport # "ok" \/ receipt.syntax = "blank"

IsProtocolError(receipt) ==
  ~IsTransportError(receipt) /\ (receipt.syntax = "garbage" \/ receipt.top # "obj")

IsPayload(receipt) == ~IsTransportError(receipt) /\ ~IsProtocolError(receipt)

AsksForTools(receipt) == IsPayload(receipt) /\ WhitelistedNames(receipt.named) # <<>>

\* the concatenation of the first n elements of a sequence of sequences
RECURSIVE Flatten(_, _)
Flatten(seqs, n) == IF n = 0 THEN <<>> ELSE Flatten(seqs, n - 1) \o seqs[n]

ToolNames(results) == [i \in 1..Len(results) |-> results[i].tool]

RunEnded == agentPc \in {"returned", "failed"}

TransportCalls == Len(sentPrompts)

\* C3: a run issues at most 4 transport calls; when the responses of rounds 1
\* to 4 all ask for a whitelisted tool, the run has failed with the
\* round-budget error after the 4th round and no 5th call was issued
C3_RoundBudget ==
  /\ TransportCalls <= 4
  /\ Len(received) <= 4
  /\ (Len(received) = 4 /\ \A k \in 1..4 : AsksForTools(received[k]))
       => (agentPc = "failed" /\ agentError = "NoFinalProposal" /\ TransportCalls = 4)

C3_Witness ==
  /\ Len(received) = 4
  /\ \A k \in 1..4 : AsksForTools(received[k])
  /\ agentError = "NoFinalProposal"

TransportErrors == {"FetchFailed", "LlmCallFailed", "NoTextInResponse"}

ProtocolErrors == {"SyntaxError", "NotJsonObject"}

\* C4: a run ends after at most 4 rounds in exactly one of a returned result,
\* the round-budget error, a transport error or a protocol error: while it is
\* suspended fewer than 4 rounds have settled and the pending call can settle,
\* and every step of a suspended run settles one more round
C4_EndsInOneOutcome ==
  /\ Len(received) <= 4
  /\ agentPc = "awaiting" =>
        /\ Len(received) < 4
        /\ ENABLED (\E http \in HttpOutcomes :
                      TransportFails(http) \/ ProtocolFails(http) \/ ToolRound(http)
                      \/ FinalRound(http))
  /\ agentPc = "returned" => (agentResult # NoResult /\ agentError = "")
  /\ agentPc = "failed" =>
        /\ agentResult = NoResult
        /\ agentError \in TransportErrors \cup ProtocolErrors \cup {"NoFinalProposal"}
  /\ agentPc \in {"idle", "awaiting"} => (agentResult = NoResult /\ agentError = "")

C4_Progress == [][agentPc = "awaiting" => Len(received') = Len(received) + 1]_vars

C4_Terminates == []C4_EndsInOneOutcome /\ C4_Progress

C4_Witness == agentPc = "returned" /\ Len(received) = 4

\* C5: a round whose response carries a whitelisted tool call and a proposal
\* executes the tool calls and does not end the run; the proposal of a result
\* is the one of the final round's response, which asked for no tool
C5_ToolsBeforeProposal ==
  /\ \A k \in 1..Len(received) :
        AsksForTools(received[k]) =>
           /\ roundResults[k] # <<>>
           /\ ~(agentPc = "returned" /\ k = Len(received))
  /\ agentPc = "returned" =>
        /\ ~AsksForTools(received[Len(received)])
        /\ finalPayload # NoResult
        /\ agentResult.proposal = parseProposal(Field(finalPayload, "proposal"))
        /\ pendingProposal = agentResult.proposal

C5_Witness ==
  /\ agentPc = "returned"
  /\ Len(received) = 2
  /\ AsksForTools(received[1]) /\ received[1].proposed
  /\ agentResult.proposal = NoProposal

\* C6: a response without a whitelisted tool call ends the run in its round:
\* the run returned the result of that payload and no further call was issued
C6_NoToolsIsFinal ==
  \A k \in 1..Len(received) :
     (IsPayload(received[k]) /\ ~AsksForTools(received[k])) =>
        /\ k = Len(received)
        /\ agentPc = "returned"
        /\ TransportCalls = k
        /\ agentResult.question =
             (IF Field(finalPayload, "userQuestion").t = "str"
              THEN Field(finalPayload, "userQuestion") ELSE Absent)
        /\ agentResult.needsUserInput =
             (Field(finalPayload, "needsUserInput") \in {Bool(TRUE), Str(<<"n", "o">>)})

C6_Witness ==
  /\ agentPc = "returned"
  /\ Len(received) = 2
  /\ received[2].named # <<>>
  /\ agentResult.proposal = NoProposal

\* C7: rounds are sequential and the accumulator only grows: the prompt of
\* round k carries the results of rounds 1..k-1 in execution order, and at most
\* one transport call is outstanding. A round-1 search_tasks call followed by a
\* round-2 proposal makes two transport calls, the second prompt carries the
\* search result, and the run returns the round-2 proposal
C7_SequentialRounds ==
  /\ TransportCalls = Len(received) + (IF agentPc = "awaiting" THEN 1 ELSE 0)
  /\ Len(roundResults) = Len(received)
  /\ \A k \in 1..TransportCalls :
        sentPrompts[k].toolResults = Flatten(roundResults, k - 1)
  /\ accumulatedToolResults = Flatten(roundResults, Len(roundResults))
  /\ ( /\ Len(received) = 2
       /\ received[1].named = <<"search_tasks">>
       /\ IsPayload(received[2]) /\ ~AsksForTools(received[2])
       /\ Field(finalPayload, "proposal") =
             Obj([summary |-> Str(<<"s">>), operations |-> Arr(<<ItemCreate>>)]) )
       => /\ agentPc = "returned"
          /\ TransportCalls = 2
          /\ Len(sentPrompts[2].toolResults) = 1
          /\ sentPrompts[2].toolResults[1].tool = "search_tasks"
          /\ sentPrompts[2].toolResults[1].ok
          /\ [i \in 1..Len(sentPrompts[2].toolResults[1].result.payload) |->
                sentPrompts[2].toolResults[1].result.payload[i].id] = <<"t2", "t1">>
          /\ agentResult.proposal # NoProposal
          /\ Len(agentResult.proposal.operations) = 1
          /\ agentResult.proposal.operations[1].title = Str(<<"N">>)

C7_Witness ==
  /\ agentPc = "returned"
  /\ Len(received) = 2
  /\ received[1].named = <<"search_tasks">>
  /\ Len(sentPrompts[2].toolResults) = 1
  /\ agentResult.proposal # NoProposal

C9_WhitelistAndCap ==
  /\ \A k \in 1..Len(roundResults) :
        /\ Len(roundResults[k]) <= 4
        /\ \A i \in 1..Len(roundResults[k]) : roundResults[k][i].tool \in ToolWhitelist
        /\ IsPayload(received[k]) =>
              ToolNames(roundResults[k]) =
                 SubSeq(WhitelistedNames(received[k].named), 1,
                        IF Len(WhitelistedNames(received[k].named)) < 4
                        THEN Len(WhitelistedNames(received[k].named)) ELSE 4)
  /\ ToolNames(accumulatedToolResults) = ToolNames(Flatten(roundResults, Len(roundResults)))
  /\ \A k \in 1..Len(received) :
        (IsPayload(received[k]) /\ agentPc = "failed" /\ k = Len(received))
           => (agentError = "NoFinalProposal" /\ k = 4)

\* a round that dropped entries and cut the rest to 4
C9_Witness ==
  \E k \in 1..Len(roundResults) :
     /\ Len(roundResults[k]) = 4
     /\ Len(WhitelistedNames(received[k].named)) > 4
     /\ \E i \in 1..Len(received[k].named) : received[k].named[i] = "delete_all_tasks"

\* C10: a transport failure or a protocol error in round k ends the run with
\* that error: it is the last round, no transport call follows it and no tool
\* call of round k is executed
C10_ErrorsAreFatal ==
  \A k \in 1..Len(received) :
     (IsTransportError(received[k]) \/ IsProtocolError(received[k])) =>
        /\ k = Len(received)
        /\ agentPc = "failed"
        /\ IsTransportError(received[k]) => agentError \in TransportErrors
        /\ IsProtocolError(received[k]) => agentError \in ProtocolErrors
        /\ TransportCalls = k
        /\ roundResults[k] = <<>>
        /\ accumulatedToolResults = Flatten(roundResults, k - 1)
        /\ agentResult = NoResult

\* a protocol error in a later round, after tool calls were executed
C10_Witness ==
  /\ Len(received) = 3
  /\ IsProtocolError(received[3])
  /\ received[3].top = "arr"
  /\ agentPc = "failed"
  /\ accumulatedToolResults # <<>>

----------------------------------------------------------------------------
(* Properties of the applier.                                              *)

StoreTables == <<dbTasks, dbProjects, dbTaskTypes, undoStack, idCounter>>

\* the operations of the batch in progress that were selected, in order
SelectedPositions(run) ==
  {i \in 1..Len(run.proposal.operations) : i \in run.selectedOperationSet}

IsIncreasing(s) == \A i, j \in 1..Len(s) : i < j => s[i] < s[j]

RecordsFailure == Len(applyRun'.failedLogs) = Len(applyRun.failedLogs) + 1

C1_Counts ==
  /\ applyRun.pc # "none" =>
       /\ applyRun.attempted = SubSeq(applyRun.indexesToApply, 1, applyRun.pos - 1)
       /\ Len(applyRun.successLogs) + Len(applyRun.failedLogs) = Len(applyRun.attempted)
       /\ Cardinality(applyRun.failedIndexSet) = Len(applyRun.failedLogs)
       /\ applyRun.failedIndexSet \subseteq SelectedPositions(applyRun)
  /\ applyRun.pc = "done" =>
       /\ applyRun.attempted = applyRun.indexesToApply
       /\ IsIncreasing(applyRun.attempted)
       /\ {applyRun.attempted[k] : k \in 1..Len(applyRun.attempted)}
            = SelectedPositions(applyRun)
       /\ Len(applyRun.successLogs) + Len(applyRun.failedLogs)
            = Cardinality(SelectedPositions(applyRun))
       /\ applyResult = [t |-> "applied", success |-> Len(applyRun.successLogs),
                         failed |-> Len(applyRun.failedLogs)]

C1_FailureLeavesStore == [][RecordsFailure => UNCHANGED StoreTables]_vars

\* C1: handleApplyProposal attempts every selected operation exactly once, in
\* order, whatever the outcome of the others: the successes and failures it
\* reports add up to the number of selected operations, and the step of an
\* operation that fails leaves tables and undo stack as they were, the
\* effects of the operations that succeeded before it included
C1_PerOperationIsolation == []C1_Counts /\ C1_FailureLeavesStore

C1_Witness ==
  /\ applyRun.pc = "done"
  /\ applyRun.attempted = <<1, 2>>
  /\ applyRun.failedIndexSet = {1}
  /\ Len(applyRun.successLogs) = 1
  /\ dbTasks # InitialTasks

\* C2: after a batch the pending proposal is the operations that were not
\* selected or that failed, in order, and none when there is no such
\* operation. When operation 1 of two selected operations creates a task in a
\* project that is deleted and operation 2 is valid, the batch reports one
\* failure and one success and leaves operation 1 alone pending
C2_ResidualProposal ==
  applyRun.pc = "done" =>
    LET operations == applyRun.proposal.operations
        remaining  == filterSeq(operations,
                                {i \in 1..Len(operations) :
                                   i \notin applyRun.selectedOperationSet
                                   \/ i \in applyRun.failedIndexSet})
    IN /\ IF remaining = <<>> THEN pendingProposal = NoProposal
          ELSE pendingProposal # NoProposal /\ pendingProposal.operations = remaining
       /\ ( /\ Len(operations) = 2
            /\ applyRun.selectedOperationSet = {1, 2}
            /\ operations[1] = OperationOf(ItemCreateInP3)
            /\ find(applyRun.storedProjects, "p3") = Absent
            /\ operations[2] = OperationOf(ItemCreate) )
          => /\ applyResult = [t |-> "applied", success |-> 1, failed |-> 1]
             /\ pendingProposal # NoProposal
             /\ pendingProposal.operations = <<operations[1]>>

\* the pending proposal after a batch, without the two-operation case of C2
ResidualIsUnselectedOrFailed ==
  applyRun.pc = "done" =>
    LET operations == applyRun.proposal.operations
        remaining  == filterSeq(operations,
                                {i \in 1..Len(operations) :
                                   i \notin applyRun.selectedOperationSet
                                   \/ i \in applyRun.failedIndexSet})
    IN IF remaining = <<>> THEN pendingProposal = NoProposal
       ELSE pendingProposal # NoProposal /\ pendingProposal.operations = remaining

\* the two-operation case of C2 when the render has seen the deletion
C2_CaseAfterRender ==
  ( /\ applyRun.pc = "done"
    /\ Len(applyRun.proposal.operations) = 2
    /\ applyRun.selectedOperationSet = {1, 2}
    /\ applyRun.proposal.operations[1] = OperationOf(ItemCreateInP3)
    /\ find(applyRun.projectMap, "p3") = Absent
    /\ applyRun.proposal.operations[2] = OperationOf(ItemCreate) )
  => /\ applyResult = [t |-> "applied", success |-> 1, failed |-> 1]
     /\ pendingProposal.operations = <<applyRun.proposal.operations[1]>>

\* the ids of the tasks of a table
TaskIds(table) == {table[i].id : i \in 1..Len(table)}

\* the operation the handler applies in its next step
CurrentIndex == applyRun.indexesToApply[applyRun.pos]
CurrentOperation == applyRun.proposal.operations[CurrentIndex]

C12_SelectedOnly ==
  applyRun.pc # "none" =>
    /\ \A k \in 1..Len(applyRun.attempted) :
          applyRun.attempted[k] \in applyRun.selectedOperationSet
    /\ \A k \in 1..Len(applyRun.indexesToApply) :
          applyRun.indexesToApply[k] \in applyRun.selectedOperationSet

\* a step that changes the tasks table or the undo stack applies an operation
\* the selection holds, and changes the task that operation names
C12_WritesAreSelected ==
  [][<<dbTasks, undoStack, idCounter>>' # <<dbTasks, undoStack, idCounter>> =>
       /\ applyRun.pc = "applying"
       /\ CurrentIndex \in applyRun.selectedOperationSet
       /\ applyRun'.attempted = Append(applyRun.attempted, CurrentIndex)
       /\ IF CurrentOperation.action = Str("create_task")
          THEN /\ Len(dbTasks') = Len(dbTasks) + 1
               /\ dbTasks'[Len(dbTasks')].title = Trim(CurrentOperation.title.v)
               /\ SubSeq(dbTasks', 1, Len(dbTasks)) = dbTasks
          ELSE \A id \in TaskIds(dbTasks) \cup TaskIds(dbTasks') :
                  find(dbTasks', id) # find(dbTasks, id) => id = CurrentOperation.taskId.v]_vars

C12_EmptySelection ==
  [][(selectedOperationIndexes = <<>> /\ ~isApplying) =>
       UNCHANGED <<dbTasks, undoStack, idCounter, pendingProposal, applyRun>>]_vars

\* C12: handleApplyProposal applies only the operations the selection held
\* when it was called: every operation it attempts is selected, every change
\* of the tasks table is the effect of a selected operation on the task it
\* names, and while the selection is empty no operation is applied and the
\* pending proposal stays as it is
C12_OnlySelectedApplied == []C12_SelectedOnly /\ C12_WritesAreSelected /\ C12_EmptySelection

\* the second of two operations was applied alone and the first is still pending
C12_Witness ==
  /\ applyRun.pc = "done"
  /\ Len(applyRun.proposal.operations) = 2
  /\ applyRun.selectedOperationSet = {2}
  /\ applyRun.attempted = <<2>>
  /\ dbTasks # InitialTasks
  /\ pendingProposal # NoProposal
  /\ pendingProposal.operations = <<applyRun.proposal.operations[1]>>

\* a pending proposal with nothing selected
C12_WitnessEmpty ==
  /\ pendingProposal # NoProposal
  /\ selectedOperationIndexes = <<>>
  /\ ~isApplying

\* a step of handleApplyProposal that applies an operation
ApplyStep ==
  /\ applyRun.pc = "applying"
  /\ applyRun'.attempted = Append(applyRun.attempted, CurrentIndex)

RecordsSuccess == Len(applyRun'.successLogs) = Len(applyRun.successLogs) + 1

TargetsTask(operation) == operation.action \in {Str("update_task"), Str("delete_task")}

\* C13: an update_task or delete_task whose target is not in the tasks table
\* when it is applied is recorded as a failure (and so stays pending), also
\* when an earlier operation of the batch deleted the target; and an
\* operation is recorded as a success only if its step changed the table
C13_MissingTargetFails ==
  [][ApplyStep =>
       /\ (TargetsTask(CurrentOperation)
           /\ find(dbTasks, CurrentOperation.taskId.v) = Absent)
          => (RecordsFailure /\ CurrentIndex \in applyRun'.failedIndexSet)
       /\ RecordsSuccess => dbTasks' # dbTasks]_vars

\* the part of C13 on targets missing from the store
C13_MissingTargetPart ==
  [][ApplyStep =>
       ((TargetsTask(CurrentOperation) /\ find(dbTasks, CurrentOperation.taskId.v) = Absent)
        => RecordsFailure)]_vars

\* the part of C13 on successes
C13_SuccessPersistedPart == [][(ApplyStep /\ RecordsSuccess) => dbTasks' # dbTasks]_vars

\* what the applier does test: a target missing from the taskMap of its render
C13_MissingInRenderFails ==
  [][ApplyStep =>
       ((TargetsTask(CurrentOperation)
         /\ find(applyRun.taskMap, CurrentOperation.taskId.v) = Absent)
        <=> (RecordsFailure /\ applyRun'.failedLogs[Len(applyRun'.failedLogs)][2]
                                  \in {"UpdateTargetNotFound", "DeleteTargetNotFound"}))]_vars

\* the tasks a step writes: those of the next table that the table did not hold so
WrittenTasks ==
  {dbTasks'[i] : i \in {j \in 1..Len(dbTasks') : find(dbTasks, dbTasks'[j].id) # dbTasks'[j]}}

\* the project an operation names, or "" when it names none
ReferencedProject(operation) ==
  IF operation.action = Str("create_task") THEN operation.projectId.v
  ELSE IF operation.action = Str("update_task")
          /\ isString(Field(operation.changes, "projectId"))
  THEN Field(operation.changes, "projectId").v
  ELSE ""

\* C14: a create_task or update_task that names a project or task type the
\* store does not hold when the operation is applied fails, and the applier
\* never writes a task whose projectId or taskTypeId the store does not hold
\* at the moment of the write
C14_NoDanglingWrite ==
  [][ApplyStep =>
       /\ (ReferencedProject(CurrentOperation) # ""
           /\ find(dbProjects, ReferencedProject(CurrentOperation)) = Absent)
          => (RecordsFailure /\ UNCHANGED dbTasks)
       /\ \A task \in WrittenTasks :
             /\ find(dbProjects, task.projectId) # Absent
             /\ find(dbTaskTypes, task.taskTypeId) # Absent]_vars

\* what the applier does test: the projectMap and taskTypeMap of its render
C14_RenderMapsTested ==
  [][ApplyStep =>
       ((ReferencedProject(CurrentOperation) # ""
         /\ find(applyRun.projectMap, ReferencedProject(CurrentOperation)) = Absent)
        => (RecordsFailure /\ UNCHANGED dbTasks))]_vars

\* the fields of a task an update_task can name
CoreFields ==
  {"title", "content", "taskTypeId", "projectId", "status", "startAt", "endAt", "isMajor"}

\* the value a change-set gives a field (title and content as stored, trimmed)
ChangedValue(changes, key) ==
  IF key = "endAt" /\ Field(changes, key) = Null THEN NoDate
  ELSE IF key \in {"title", "content"} THEN Trim(Field(changes, key).v)
  ELSE Field(changes, key).v

\* C15: an update_task that writes its task leaves it with the fields of the
\* change-set at their new values (endAt null clearing the end) and every
\* other field, bookkeeping of updatedAt and completedAt aside, at the value
\* the store held immediately before the operation, also when an earlier
\* operation of the batch changed the task
C15_MergeOntoPersisted ==
  [][(ApplyStep /\ CurrentOperation.action = Str("update_task") /\ dbTasks' # dbTasks) =>
       LET id      == CurrentOperation.taskId.v
           changes == CurrentOperation.changes
           before  == find(dbTasks, id)
           after   == find(dbTasks', id)
       IN /\ before # Absent /\ after # Absent
          /\ \A key \in CoreFields :
                after[key] = IF Field(changes, key) # Absent THEN ChangedValue(changes, key)
                             ELSE before[key]
          /\ \A key \in {"id", "createdAt", "recurrencePattern", "recurrenceGroupId",
                         "recurrenceIndex"} : after[key] = before[key]]_vars

\* what the applier does: the fields the change-set does not name are those
\* of the task in the taskMap of its render
C15_MergeOntoRendered ==
  [][(ApplyStep /\ CurrentOperation.action = Str("update_task") /\ dbTasks' # dbTasks) =>
       LET id       == CurrentOperation.taskId.v
           changes  == CurrentOperation.changes
           rendered == find(applyRun.taskMap, id)
           before   == find(dbTasks, id)
           after    == find(dbTasks', id)
       IN /\ rendered # Absent /\ after # Absent
          /\ \A key \in CoreFields :
                after[key] = IF Field(changes, key) # Absent THEN ChangedValue(changes, key)
                             ELSE IF key = "title" \/ key = "content" THEN Trim(rendered[key])
                             ELSE rendered[key]
          /\ \A key \in {"id", "createdAt", "recurrencePattern", "recurrenceGroupId",
                         "recurrenceIndex"} : after[key] = before[key]]_vars

----------------------------------------------------------------------------
(* Properties of the workspace with both handlers.                         *)

\* a step of handleSend or runScheduleAgent
RunStep == agentVars' # agentVars

\* every get_task and search_tasks result of the run is what the snapshot holds
C11_ToolsReadSnapshot ==
  \A k \in 1..Len(roundResults) : \A i \in 1..Len(roundResults[k]) :
     LET executed == roundResults[k][i] IN
     /\ executed.tool = "get_task" =>
          LET task == find(input.tasks, Field(executed.args, "taskId").v) IN
          /\ executed.ok = (task # Absent)
          /\ executed.ok =>
               /\ executed.result.payload.status = task.status
               /\ executed.result.payload.projectId = task.projectId
               /\ executed.result.payload.updatedAt = task.updatedAt
     /\ executed.tool = "search_tasks" =>
          \A j \in 1..Len(executed.result.payload) :
             LET task == find(input.tasks, executed.result.payload[j].id) IN
             /\ task # Absent
             /\ executed.result.payload[j].status = task.status

C11_RunLeavesStore ==
  [][RunStep => /\ UNCHANGED <<StoreTables, tasks, projects, taskTypes>>
                /\ agentPc = "awaiting" => input' = input]_vars

C11_OnlyApplierWrites ==
  [][StoreTables' # StoreTables =>
       /\ applyRun.pc = "applying"
       /\ applyRun'.attempted = Append(applyRun.attempted,
                                       applyRun.indexesToApply[applyRun.pos])
       /\ ~RunStep]_vars

\* C11: an agent run is read-only: no step of handleSend or runScheduleAgent,
\* tool executions included, changes the tables of the store, the undo stack
\* or the snapshot of the run; the tools answer from the snapshot; and the
\* tables change only in a step of handleApplyProposal that applies an
\* operation of the proposal it was called with
C11_ReadOnlyRun == []C11_ToolsReadSnapshot /\ C11_RunLeavesStore /\ C11_OnlyApplierWrites

\* a run that executed tools and returned while the store no longer holds
\* what its snapshot holds
C11_Witness ==
  /\ agentPc = "returned"
  /\ Len(received) >= 2
  /\ Len(roundResults[1]) = 2
  /\ dbTasks # input.tasks
  /\ applyRun.pc = "done"

\* the step in which the run returns a proposal
ProposalArrives ==
  /\ agentPc = "awaiting"
  /\ agentPc' = "returned"
  /\ pendingProposal' # NoProposal

\* the operations array of the response the run ended with
RawOperations(payload) ==
  IF isRecord(Field(payload, "proposal"))
     /\ Field(Field(payload, "proposal"), "operations").t = "arr"
  THEN Field(Field(payload, "proposal"), "operations").v
  ELSE <<>>

\* the proposal the workspace shows holds, in the order of the response, the
\* operation of every item of the response that yields one
C16_ParseKeepsOrder ==
  [][ProposalArrives =>
       LET raw   == RawOperations(finalPayload')
           kept  == {i \in 1..Len(raw) : OperationOf(raw[i]) # Null}
           valid == filterSeq(raw, kept)
       IN pendingProposal'.operations = [k \in 1..Len(valid) |-> OperationOf(valid[k])]]_vars

\* the selection is kept ascending whatever the order of the clicks, and the
\* operations are attempted in ascending order of their position: each step
\* attempts the least selected position not yet attempted
C16_ApplyAscending ==
  [][/\ IsIncreasing(selectedOperationIndexes')
     /\ ApplyStep =>
          /\ \A k \in 1..Len(applyRun.attempted) : applyRun.attempted[k] < CurrentIndex
          /\ \A i \in applyRun.selectedOperationSet :
               (i < CurrentIndex /\ i <= Len(applyRun.proposal.operations))
                 => \E k \in 1..Len(applyRun.attempted) : applyRun.attempted[k] = i]_vars

\* the step in which handleApplyProposal stores what remains
ApplyFinishes == applyRun.pc = "applying" /\ applyRun'.pc = "done"

\* what remains is the unselected and the failed operations in the order they
\* had in the proposal that was applied
C16_ResidualKeepsOrder ==
  [][ApplyFinishes =>
       LET operations == applyRun.proposal.operations
           left       == {i \in 1..Len(operations) :
                            i \notin applyRun.selectedOperationSet
                            \/ i \in applyRun'.failedIndexSet}
       IN IF left = {} THEN pendingProposal' = NoProposal
          ELSE /\ pendingProposal' # NoProposal
               /\ LET rest == pendingProposal'.operations
                  IN \E f \in [1..Len(rest) -> 1..Len(operations)] :
                       /\ \A j, k \in 1..Len(rest) : j < k => f[j] < f[k]
                       /\ {f[k] : k \in 1..Len(rest)} = left
                       /\ \A k \in 1..Len(rest) : rest[k] = operations[f[k]]]_vars

\* C16: the order of the operations is preserved end to end: the parser keeps
\* the valid items of the response in their original relative order, the
\* applier attempts the selected operations in ascending list order whatever
\* the order of the clicks that selected them, and the residual proposal keeps
\* the relative order of what remains
C16_OrderPreserved ==
  C16_ParseKeepsOrder /\ C16_ApplyAscending /\ C16_ResidualKeepsOrder

\* a response of five items, two of them invalid, parsed to three operations,
\* all three attempted in list order, the first one failed and left over
C16_Witness ==
  /\ agentPc = "returned"
  /\ Len(RawOperations(finalPayload)) = 5
  /\ applyRun.pc = "done"
  /\ applyRun.proposal.operations =
       <<OperationOf(ItemUpdateMissing), OperationOf(ItemDelete), OperationOf(ItemUpdate)>>
  /\ applyRun.attempted = <<1, 2, 3>>
  /\ pendingProposal # NoProposal
  /\ pendingProposal.operations = <<OperationOf(ItemUpdateMissing)>>

----------------------------------------------------------------------------
(* Properties of the undo stack                                            *)

\* a step of createTask: keys were handed out
CreateStep == idCounter' # idCounter

\* a step of undoLastChange on a stack that holds an entry
UndoStep ==
  /\ Len(undoStack) > 0
  /\ undoStack' = SubSeq(undoStack, 1, Len(undoStack) - 1)
  /\ idCounter' = idCounter
  /\ clock' = clock

\* the entry undoLastChange pops
TopEntry == undoStack[Len(undoStack)]

IdsOf(ids) == {ids[k] : k \in 1..Len(ids)}

\* the rows of every key outside ids are what they were
OtherRowsKept(ids) ==
  \A id \in (TaskIds(dbTasks) \cup TaskIds(dbTasks')) \ ids :
    find(dbTasks', id) = find(dbTasks, id)

\* createTask pushes one delete_tasks entry that names every key it added
C17_OneEntryPerCreate ==
  [][CreateStep =>
       /\ Len(undoStack') = Len(undoStack) + 1
       /\ SubSeq(undoStack', 1, Len(undoStack)) = undoStack
       /\ undoStack'[Len(undoStack')].kind = "delete_tasks"
       /\ IdsOf(undoStack'[Len(undoStack')].taskIds) = TaskIds(dbTasks') \ TaskIds(dbTasks)
       /\ Len(undoStack'[Len(undoStack')].taskIds) = Len(dbTasks') - Len(dbTasks)
       /\ TaskIds(dbTasks) \subseteq TaskIds(dbTasks')]_vars

\* C17: createTask pushes exactly one undo entry covering every id it created
\* (one entry for all the instances of a recurring creation), and
\* undoLastChange on that entry removes all of those ids and no other task
C17_CreateThenUndo ==
  [][/\ CreateStep =>
          /\ Len(undoStack') = Len(undoStack) + 1
          /\ undoStack'[Len(undoStack')].kind = "delete_tasks"
          /\ IdsOf(undoStack'[Len(undoStack')].taskIds)
               = TaskIds(dbTasks') \ TaskIds(dbTasks)
     /\ (UndoStep /\ TopEntry.kind = "delete_tasks") =>
          /\ TaskIds(dbTasks') = TaskIds(dbTasks) \ IdsOf(TopEntry.taskIds)
          /\ OtherRowsKept(IdsOf(TopEntry.taskIds))]_vars

\* when undoLastChange changes the table on a delete_tasks entry, it removes
\* the keys the entry names and no other
C17_UndoWhenUpdaterRanFirst ==
  [][(UndoStep /\ TopEntry.kind = "delete_tasks" /\ dbTasks' # dbTasks) =>
       /\ TaskIds(dbTasks') = TaskIds(dbTasks) \ IdsOf(TopEntry.taskIds)
       /\ OtherRowsKept(IdsOf(TopEntry.taskIds))]_vars

\* the keys whose row a step rewrote
RewrittenIds ==
  {id \in TaskIds(dbTasks) \cap TaskIds(dbTasks') : find(dbTasks', id) # find(dbTasks, id)}

\* a step of updateTask that changed a task (undoLastChange shortens the stack)
UpdateStep ==
  /\ idCounter' = idCounter
  /\ Len(undoStack') >= Len(undoStack)
  /\ RewrittenIds # {}

\* a step of removeTask that deleted a task
RemoveStep ==
  /\ idCounter' = idCounter
  /\ Len(undoStack') >= Len(undoStack)
  /\ TaskIds(dbTasks') # TaskIds(dbTasks)
  /\ TaskIds(dbTasks') \subseteq TaskIds(dbTasks)

\* after the step the top of the stack holds one snapshot: the row the key had
\* before the step
TopHoldsRowBefore(id) ==
  /\ Len(undoStack') > 0
  /\ undoStack'[Len(undoStack')].kind = "upsert_tasks"
  /\ undoStack'[Len(undoStack')].tasks = <<find(dbTasks, id)>>

\* the step puts back every snapshot of the entry it pops and no other row
RestoresTopEntry ==
  /\ \A k \in 1..Len(TopEntry.tasks) :
       find(dbTasks', TopEntry.tasks[k].id) = TopEntry.tasks[k]
  /\ OtherRowsKept({TopEntry.tasks[k].id : k \in 1..Len(TopEntry.tasks)})

\* the entry on top holds snapshots of tasks the table holds: an entry of updates
TopIsOfUpdate ==
  /\ TopEntry.kind = "upsert_tasks"
  /\ TaskIds(TopEntry.tasks) \subseteq TaskIds(dbTasks)

\* the entry on top holds the snapshot of a task the table has lost: an entry
\* of a delete
TopIsOfDelete ==
  /\ TopEntry.kind = "upsert_tasks"
  /\ TaskIds(TopEntry.tasks) \cap TaskIds(dbTasks) = {}

\* C18: after an updateTask that changed a task, undoLastChange restores every
\* field of the task to the values it had before that update: the update
\* leaves on top of the stack the row as it was before it, and undoLastChange
\* puts back the rows of the entry on top
C18_UndoRestoresUpdate ==
  [][/\ UpdateStep => \A id \in RewrittenIds : TopHoldsRowBefore(id)
     /\ (UndoStep /\ TopIsOfUpdate) => RestoresTopEntry]_vars

\* an update that pushes an entry pushes the row as it was before the update
C18_PushedEntryHoldsRowBefore ==
  [][(UpdateStep /\ Len(undoStack') = Len(undoStack) + 1) =>
       \A id \in RewrittenIds : TopHoldsRowBefore(id)]_vars

\* when undoLastChange changes the table on an upsert_tasks entry, it puts
\* back the snapshots of the entry and touches no other row
C18_UndoWhenUpdaterRanFirst ==
  [][(UndoStep /\ TopEntry.kind = "upsert_tasks" /\ dbTasks' # dbTasks) =>
       RestoresTopEntry]_vars

\* C19: after removeTask deleted a task, undoLastChange makes the task
\* reappear with the fields it had when it was deleted, whatever preceded the
\* delete: the delete leaves on top of the stack the row it deleted, and
\* undoLastChange puts back the rows of the entry on top
C19_UndoRestoresDelete ==
  [][/\ RemoveStep =>
          \A id \in TaskIds(dbTasks) \ TaskIds(dbTasks') : TopHoldsRowBefore(id)
     /\ (UndoStep /\ TopIsOfDelete) =>
          \A k \in 1..Len(TopEntry.tasks) :
            find(dbTasks', TopEntry.tasks[k].id) = TopEntry.tasks[k]]_vars

\* a delete that pushes an entry pushes the row it deleted
C19_PushedEntryHoldsDeletedRow ==
  [][(RemoveStep /\ Len(undoStack') = Len(undoStack) + 1) =>
       \A id \in TaskIds(dbTasks) \ TaskIds(dbTasks') : TopHoldsRowBefore(id)]_vars

\* a delete pushes no entry exactly when the top of the stack is an entry of
\* the same task younger than the merge window
C19_DeleteMergedIntoUpdate ==
  [][(RemoveStep /\ undoStack' = undoStack) =>
       /\ Len(undoStack) > 0
       /\ TopEntry.kind = "upsert_tasks"
       /\ TaskIds(TopEntry.tasks) = TaskIds(dbTasks) \ TaskIds(dbTasks')
       /\ (clock - getTime(TopEntry.createdAt).ms) * MS_PER_TICK
            < UPDATE_UNDO_MERGE_WINDOW_MS]_vars

\* the top of the stack is the entry of one task, pushed less than the merge
\* window ago
InMergeWindow(id) ==
  /\ Len(undoStack) > 0
  /\ TopEntry.kind = "upsert_tasks"
  /\ Len(TopEntry.tasks) = 1
  /\ TopEntry.tasks[1].id = id
  /\ (clock - getTime(TopEntry.createdAt).ms) * MS_PER_TICK < UPDATE_UNDO_MERGE_WINDOW_MS

\* an update within the merge window of the entry on top leaves the stack as
\* it is; an update of another task or outside the window pushes one entry
\* holding the row before the update
C20_UpdatesCollapse ==
  [][UpdateStep =>
       \A id \in RewrittenIds :
         IF InMergeWindow(id) THEN undoStack' = undoStack
         ELSE /\ undoStack' = Append(undoStack, undoStack'[Len(undoStack')])
              /\ TopHoldsRowBefore(id)]_vars

\* C20: consecutive updates of one task within the merge window collapse into
\* one undo entry, the stack grows by one for the whole run of updates and one
\* undo restores the task to its state before the first of them; an update of
\* another task or outside the window pushes its own entry
C20_CollapseAndUndo ==
  [][/\ UpdateStep =>
          \A id \in RewrittenIds :
            IF InMergeWindow(id) THEN undoStack' = undoStack
            ELSE /\ Len(undoStack') = Len(undoStack) + 1
                 /\ TopHoldsRowBefore(id)
     /\ (UndoStep /\ TopIsOfUpdate /\ Len(TopEntry.tasks) = 1) =>
          find(dbTasks', TopEntry.tasks[1].id) = TopEntry.tasks[1]]_vars

\* a step that pushed an entry
PushStep ==
  /\ undoStack' # undoStack
  /\ Len(undoStack') >= Len(undoStack)

\* C21: the undo stack never holds more than MAX_UNDO_STACK entries; a push
\* below that depth appends the entry, and a push onto a full stack drops the
\* oldest entry and keeps the most recent MAX_UNDO_STACK entries in order
C21_StackBounded ==
  [][/\ Len(undoStack') <= MAX_UNDO_STACK
     /\ PushStep =>
          IF Len(undoStack) < MAX_UNDO_STACK
          THEN SubSeq(undoStack', 1, Len(undoStack)) = undoStack
               /\ Len(undoStack') = Len(undoStack) + 1
          ELSE /\ Len(undoStack') = MAX_UNDO_STACK
               /\ SubSeq(undoStack', 1, MAX_UNDO_STACK - 1) = Tail(undoStack)]_vars

\* a full stack whose oldest entry, the one of the first creation, was dropped
\* by a later push
C21_Witness ==
  /\ Len(undoStack) = MAX_UNDO_STACK
  /\ idCounter > MAX_UNDO_STACK \div 2
  /\ undoStack[1].taskIds # <<getId(0)>>
  /\ undoStack[MAX_UNDO_STACK].kind = "upsert_tasks"

\* the step applies the inverse of the entry it pops
AppliesInverseOfTop ==
  IF TopEntry.kind = "delete_tasks"
  THEN /\ TaskIds(dbTasks') = TaskIds(dbTasks) \ IdsOf(TopEntry.taskIds)
       /\ OtherRowsKept(IdsOf(TopEntry.taskIds))
  ELSE RestoresTopEntry

\* C22: undoLastChange on a stack that holds an entry removes the most recent
\* entry, leaves the lower entries as they are and applies the inverse of the
\* removed entry: the listed ids are deleted for a delete_tasks entry, the
\* stored snapshots are put back for an upsert_tasks entry
C22_UndoAppliesInverse ==
  [][/\ Len(undoStack') < Len(undoStack) => UndoStep
     /\ UndoStep => AppliesInverseOfTop]_vars

\* the stack only ever shrinks by its most recent entry
C22_PopsTopOnly ==
  [][Len(undoStack') < Len(undoStack) => UndoStep]_vars

\* when undoLastChange changes the table, it applies the inverse of the entry
\* it pops
C22_InverseWhenUpdaterRanFirst ==
  [][(UndoStep /\ dbTasks' # dbTasks) => AppliesInverseOfTop]_vars

\* on an empty stack undoLastChange changes neither the stack nor the table
C22_EmptyStackIdle ==
  \A updaterRanFirst \in BOOLEAN :
    undoLastChange(dbTasks, <<>>, updaterRanFirst) = [dbTasks |-> dbTasks, undoStack |-> <<>>]

\* a step that changes the projects, the task types or a deletion under way
CatalogStep ==
  \/ dbProjects' # dbProjects
  \/ dbTaskTypes' # dbTaskTypes
  \/ projectDeletion' # projectDeletion

\* C23: the undo stack only reverses task mutations: a step of upsertProject,
\* deleteProject, upsertTaskType or deleteTaskType neither pushes nor removes
\* an undo entry, and a step that changes the stack (undoLastChange among
\* them) changes no project and no task type
C23_UndoOnlyTasks ==
  [][/\ CatalogStep => (undoStack' = undoStack /\ dbTasks' = dbTasks)
     /\ undoStack' # undoStack => (dbProjects' = dbProjects /\ dbTaskTypes' = dbTaskTypes)
     /\ dbTasks' # dbTasks => (dbProjects' = dbProjects /\ dbTaskTypes' = dbTaskTypes)]_vars

\* projects and task types were added, changed and deleted while the stack
\* held an entry, and the creation of a task was undone since
C23_Witness ==
  /\ find(dbProjects, "p3") = Absent
  /\ find(dbProjects, "p2").isActive = FALSE
  /\ find(dbTaskTypes, "ty2") = Absent
  /\ Len(dbTaskTypes) = Len(InitialTaskTypes)
  /\ Len(undoStack) = 1
  /\ undoStack[1].kind = "upsert_tasks"
  /\ TaskIds(dbTasks) = TaskIds(InitialTasks)
  /\ idCounter = 2

----------------------------------------------------------------------------
(* A run whose response holds the items of a bounded family, then the      *)
(* application of the proposal they yield.                                 *)

\* most items in an operations list of the family
MaxParseOps == 3

\* the JSON object of the keys that have a value
ObjectOf(fields) == Obj([k \in {k \in DOMAIN fields : fields[k] # Absent} |-> fields[k]])

\* create_task items: each required field absent, text or of another type,
\* the title also the empty text
ParseCreateItems ==
  { ObjectOf(f) : f \in [action     : {Str("create_task")},
                         title      : {Absent, Str(<<>>), Str(<<"N">>), Num(2)},
                         taskTypeId : {Absent, Str("ty1"), Null},
                         projectId  : {Absent, Str(DEFAULT_PROJECT_ID), Bool(TRUE)},
                         startAt    : {Absent, Str(DateText("Z", 3)), Num(3)},
                         status     : {Absent, Str("BAD"), Str("DONE")}] }

\* create_task items with the four required fields and the optional ones
ParseCreateOptionItems ==
  { ObjectOf(f) : f \in [action     : {Str("create_task")},
                         title      : {Str(<<"N">>)},
                         taskTypeId : {Str("ty1")},
                         projectId  : {Str(DEFAULT_PROJECT_ID)},
                         startAt    : {Str(DateText("Z", 3))},
                         content    : {Absent, Str(<<"c">>), Num(1)},
                         endAt      : {Absent, Null, Str(DateText("Z", 4)), Num(4)},
                         isMajor    : {Absent, Bool(TRUE), Str("yes")}] }

\* the changes of update_task items: absent, not an object, or an object of
\* recognized keys of the right or the wrong type and of an unrecognized key
ParseChanges ==
  {Absent, Null, Arr(<<>>)}
    \cup { ObjectOf(c) : c \in [status   : {Absent, Str("BAD"), Str("DONE")},
                                title    : {Absent, Num(2), Str(<<"A">>)},
                                endAt    : {Absent, Null, Num(4), Str(DateText("Z", 4))},
                                priority : {Absent, Num(1)}] }

ParseUpdateItems ==
  { ObjectOf([action |-> Str("update_task"), taskId |-> id, changes |-> c]) :
      id \in {Absent, Str("t1"), Num(1)}, c \in ParseChanges }

ParseDeleteItems ==
  { ObjectOf([action |-> Str("delete_task"), taskId |-> id, reason |-> r]) :
      id \in {Absent, Str("t1"), Str("t9"), Num(1)}, r \in {Absent, Str(<<"r">>), Num(1)} }

\* items that are no object or name no action of a proposal
ParseOtherItems ==
  {Null, Num(1), Str(<<"x">>), Arr(<<>>), ItemUnknownAction,
   Obj([title |-> Str(<<"N">>)])}

ParseItems ==
  ParseCreateItems \cup ParseCreateOptionItems \cup ParseUpdateItems \cup ParseDeleteItems
    \cup ParseOtherItems

\* the items of the lists of more than one item
ParseMixItems == {ItemCreate, ItemUpdate, ItemUpdateEmpty, ItemDelete, ItemUnknownAction, Null}

\* the operations lists: empty, every item alone, valid items among malformed
ParseLists ==
  {<<>>} \cup { <<item>> : item \in ParseItems }
    \cup UNION { [1..n -> ParseMixItems] : n \in 2..MaxParseOps }

ParsePayloads ==
  { Obj([assistantMessage |-> Str(<<"o", "k">>),
         proposal |-> Obj([summary |-> Str(<<"s">>), operations |-> Arr(items)])]) :
      items \in ParseLists }

ParseHttpOutcomes ==
  { [kind |-> "ok", text |-> [syntax |-> "json", value |-> v]] : v \in ParsePayloads }

NextParse ==
  \/ handleSend
  \/ \E http \in ParseHttpOutcomes : FinalRound(http)
  \/ handleApplyProposal
  \/ ApplyOperation

\* from the empty workspace: one run on a response of the family, then the
\* application of all the operations of its proposal
SpecParse == InitAgent /\ [][NextParse]_vars

----------------------------------------------------------------------------
(* Properties of the validation of the items of a proposal.                *)

\* the run has returned and nothing of its proposal has been applied yet
Parsed == agentPc = "returned" /\ applyRun.pc = "none"

\* the one item of the response, when the response holds one item
OnlyItem == RawOperations(finalPayload)[1]

\* the response held exactly one item, an object whose action is create_task
OneCreateItem ==
  /\ Parsed
  /\ Len(RawOperations(finalPayload)) = 1
  /\ isRecord(OnlyItem)
  /\ Field(OnlyItem, "action") = Str("create_task")

FourRequired == {"title", "taskTypeId", "projectId", "startAt"}

\* the four required fields are all text
FourAreText(item) == \A k \in FourRequired : isString(Field(item, k))

\* the operation of a minimal create_task item: the four fields as given,
\* status NOT_DONE, isMajor false, empty content, no endAt
MinimalCreate(item) ==
  [action     |-> Str("create_task"),
   title      |-> Field(item, "title"),
   content    |-> Str(<<>>),
   taskTypeId |-> Field(item, "taskTypeId"),
   projectId  |-> Field(item, "projectId"),
   status     |-> Str("NOT_DONE"),
   startAt    |-> Field(item, "startAt"),
   endAt      |-> Absent,
   isMajor    |-> Bool(FALSE)]

\* a create_task item is accepted if and only if the four required fields are
\* all text, and a minimal item takes the defaults
C24_AcceptedIffFourAreText ==
  OneCreateItem =>
    /\ (pendingProposal # NoProposal) <=> FourAreText(OnlyItem)
    /\ (FourAreText(OnlyItem) /\ DOMAIN OnlyItem.v = FourRequired \cup {"action"})
         => pendingProposal.operations = <<MinimalCreate(OnlyItem)>>

\* C24: parseCreateOperation accepts a create_task item if and only if title,
\* taskTypeId, projectId and startAt are all present as text and the title is
\* non-empty: every item missing one of the four is rejected, and a minimal
\* item with exactly the four is accepted with status NOT_DONE, isMajor
\* false, empty content and no endAt
C24_AcceptedIffFourAndTitle ==
  OneCreateItem =>
    LET required == FourAreText(OnlyItem) /\ Field(OnlyItem, "title").v # <<>>
    IN /\ (pendingProposal # NoProposal) <=> required
       /\ (required /\ DOMAIN OnlyItem.v = FourRequired \cup {"action"})
            => pendingProposal.operations = <<MinimalCreate(OnlyItem)>>

\* a task with the empty title is written to the store by the applier
C24_EmptyTitleStored ==
  \E i \in 1..Len(dbTasks) : dbTasks[i].title = <<>>

\* the response held exactly one item, an object whose action is update_task
OneUpdateItem ==
  /\ Parsed
  /\ Len(RawOperations(finalPayload)) = 1
  /\ isRecord(OnlyItem)
  /\ Field(OnlyItem, "action") = Str("update_task")

TextChangeKeys == {"title", "content", "taskTypeId", "projectId", "startAt"}

\* the changes of the item hold a recognized field of the correct type
HasRecognizedChange(item) ==
  /\ isRecord(Field(item, "changes"))
  /\ LET c == Field(item, "changes")
     IN \/ \E k \in TextChangeKeys : Field(c, k).t = "str"
        \/ Field(c, "status") \in {Str("NOT_DONE"), Str("ON_HOLD"), Str("DONE")}
        \/ Field(c, "endAt").t = "str"
        \/ Field(c, "endAt") = Null
        \/ Field(c, "isMajor").t = "bool"

\* the update_task operations of a proposal all change something
ChangesSomething(proposal) ==
  proposal # NoProposal =>
    \A i \in 1..Len(proposal.operations) :
      proposal.operations[i].action = Str("update_task")
        => DOMAIN proposal.operations[i].changes.v # {}

\* C25: parseUpdateOperation rejects an update_task item whose changes hold
\* no recognized field of the correct type, a status outside NOT_DONE,
\* ON_HOLD and DONE as the only change included; no proposal shown or applied
\* holds an update_task operation without changes
C25_UpdateWithoutChangeRejected ==
  /\ (OneUpdateItem /\ ~HasRecognizedChange(OnlyItem)) => pendingProposal = NoProposal
  /\ ChangesSomething(pendingProposal)
  /\ ChangesSomething(applyRun.proposal)
  /\ applyRun.pc = "applying" =>
       (CurrentOperation.action = Str("update_task")
          => DOMAIN CurrentOperation.changes.v # {})

\* a response whose one item changes only the status, to a value outside the
\* three, has yielded no proposal
C25_Witness ==
  /\ OneUpdateItem
  /\ Field(OnlyItem, "taskId") = Str("t1")
  /\ Field(OnlyItem, "changes") = Obj([status |-> Str("BAD")])
  /\ pendingProposal = NoProposal

\* the item validates as create_task, update_task or delete_task
Validates(item) ==
  \/ parseCreateOperation(item) # Null
  \/ parseUpdateOperation(item) # Null
  \/ parseDeleteOperation(item) # Null

\* the number of items among the first n that validate
RECURSIVE ValidUpTo(_, _)
ValidUpTo(raw, n) ==
  IF n = 0 THEN 0 ELSE ValidUpTo(raw, n - 1) + (IF Validates(raw[n]) THEN 1 ELSE 0)

\* C26: for any operations list, parseProposal keeps exactly the items that
\* validate as create_task, update_task or delete_task, each at its rank
\* among the valid items, and drops each malformed item without dropping the
\* others; the proposal is absent if and only if no item validates
C26_KeepsExactlyValid ==
  Parsed =>
    LET raw == RawOperations(finalPayload)
        n   == ValidUpTo(raw, Len(raw))
    IN /\ (pendingProposal = NoProposal) <=> (n = 0)
       /\ n > 0 =>
            /\ Len(pendingProposal.operations) = n
            /\ \A i \in 1..Len(raw) :
                 Validates(raw[i])
                   => pendingProposal.operations[ValidUpTo(raw, i)] = OperationOf(raw[i])

\* a response with a malformed item between two valid items has yielded a
\* proposal of the two
C26_Witness ==
  /\ Parsed
  /\ Len(RawOperations(finalPayload)) = 3
  /\ Validates(RawOperations(finalPayload)[1])
  /\ ~Validates(RawOperations(finalPayload)[2])
  /\ Validates(RawOperations(finalPayload)[3])
  /\ pendingProposal # NoProposal
  /\ Len(pendingProposal.operations) = 2

\* the validator of the action of an operation, applied to the operation
Revalidated(op) ==
  CASE op.action = Str("create_task") -> parseCreateOperation(Obj(op))
    [] op.action = Str("update_task") -> parseUpdateOperation(Obj(op))
    [] op.action = Str("delete_task") -> parseDeleteOperation(Obj(op))

\* C27: validation is idempotent: every operation returned by
\* parseCreateOperation, parseUpdateOperation or parseDeleteOperation, when
\* validated again, yields an operation equal to it
C27_ValidationIdempotent ==
  (Parsed /\ pendingProposal # NoProposal) =>
    \A i \in 1..Len(pendingProposal.operations) :
      /\ Revalidated(pendingProposal.operations[i]) = pendingProposal.operations[i]
      /\ OperationOf(Obj(pendingProposal.operations[i])) = pendingProposal.operations[i]

\* the operation of an update_task item that clears endAt and holds fields of
\* the wrong type has been validated again to itself
C27_Witness ==
  /\ OneUpdateItem
  /\ Field(OnlyItem, "changes") = Obj([endAt |-> Null, title |-> Num(2), priority |-> Num(1)])
  /\ pendingProposal # NoProposal
  /\ pendingProposal.operations[1].changes = Obj([endAt |-> Null])
  /\ Revalidated(pendingProposal.operations[1]) = pendingProposal.operations[1]

----------------------------------------------------------------------------
(* A run that returns operations on the start and the end of tasks, then   *)
(* their application.                                                      *)

\* most operations in a proposal on starts and ends
MaxRangeOps == 2

RangeCreate(startAt, endAt) ==
  ObjectOf([action |-> Str("create_task"), title |-> Str(<<"N">>), taskTypeId |-> Str("ty1"),
            projectId |-> Str(DEFAULT_PROJECT_ID), startAt |-> startAt, endAt |-> endAt])

RangeUpdate(taskId, startAt, endAt) ==
  ObjectOf([action |-> Str("update_task"), taskId |-> Str(taskId),
            changes |-> ObjectOf([startAt |-> startAt, endAt |-> endAt])])

\* t1 is stored from 1 to 2, t2 from 2 without an end
RangeItems ==
  { RangeCreate(Str(DateText("Z", 3)), e) :
      e \in {Absent, Str(DateText("Z", 2)), Str(DateText("Z", 3)), Str(DateText("+09:00", 4)),
             Str(EmptyDate), Str(InvalidDate)} }
    \cup { RangeCreate(Str(InvalidDate), Str(DateText("Z", 2))) }
    \cup { RangeUpdate("t1", s, e) :
             s \in {Absent, Str(DateText("Z", 2)), Str(DateText("Z", 3))},
             e \in {Absent, Null, Str(DateText("Z", 0)), Str(DateText("Z", 2)),
                    Str(DateText("Z", 4))} }
    \cup { RangeUpdate("t2", s, e) :
             s \in {Absent, Str(DateText("Z", 4))},
             e \in {Absent, Str(DateText("+09:00", 1)), Str(DateText("Z", 3))} }

RangeLists == UNION { [1..n -> RangeItems] : n \in 1..MaxRangeOps }

RangePayloads ==
  { Obj([assistantMessage |-> Str(<<"o", "k">>),
         proposal |-> Obj([summary |-> Str(<<"s">>), operations |-> Arr(items)])]) :
      items \in RangeLists }

RangeHttpOutcomes ==
  { [kind |-> "ok", text |-> [syntax |-> "json", value |-> v]] : v \in RangePayloads }

NextRange ==
  \/ handleSend
  \/ \E http \in RangeHttpOutcomes : FinalRound(http)
  \/ handleApplyProposal
  \/ ApplyOperation
  \/ liveQueryTasks

\* from the empty workspace: one run, then the application of its operations
\* on starts and ends, the task list refreshed at any moment
SpecRange == InitAgent /\ [][NextRange]_vars

----------------------------------------------------------------------------
(* Properties of the start and the end of the tasks the applier writes.    *)

\* end >= start when the end is present
InRange(startAt, endAt) ==
  isTruthyDate(endAt) =>
    /\ ~getTime(endAt).isNaN
    /\ ~getTime(startAt).isNaN
    /\ getTime(endAt).ms >= getTime(startAt).ms

\* every stored task satisfies end >= start when its end is present
C28_StoredInRange ==
  \A i \in 1..Len(dbTasks) : InRange(dbTasks[i].startAt, dbTasks[i].endAt)

\* the start and the end the operation names, on top of those of a row
ResultingStart(operation, row) ==
  IF operation.action = Str("create_task") THEN operation.startAt.v
  ELSE IF isString(Field(operation.changes, "startAt"))
  THEN Field(operation.changes, "startAt").v
  ELSE row.startAt

ResultingEnd(operation, row) ==
  IF operation.action = Str("create_task")
  THEN (IF operation.endAt = Absent THEN NoDate ELSE operation.endAt.v)
  ELSE IF Field(operation.changes, "endAt") = Absent THEN row.endAt
  ELSE IF Field(operation.changes, "endAt") = Null THEN NoDate
  ELSE Field(operation.changes, "endAt").v

\* the operation being attempted is a create_task, or an update_task of a
\* task that the table holds
RangeOperationOn(table) ==
  /\ ApplyStep
  /\ \/ CurrentOperation.action = Str("create_task")
     \/ /\ CurrentOperation.action = Str("update_task")
        /\ find(table, CurrentOperation.taskId.v) # Absent

RowOf(table) ==
  IF CurrentOperation.action = Str("update_task")
  THEN find(table, CurrentOperation.taskId.v)
  ELSE Absent

FailsAndWritesNothing ==
  /\ CurrentIndex \in applyRun'.failedIndexSet
  /\ dbTasks' = dbTasks

\* an operation whose end would precede its start on top of the task the
\* handler holds fails and writes nothing
C28_HeldRangeChecked ==
  [][(/\ RangeOperationOn(applyRun.taskMap)
      /\ ~InRange(ResultingStart(CurrentOperation, RowOf(applyRun.taskMap)),
                  ResultingEnd(CurrentOperation, RowOf(applyRun.taskMap))))
       => FailsAndWritesNothing]_vars

\* C28: every task written by the proposal applier satisfies end >= start
\* when end is present: a create_task or update_task whose resulting end
\* would precede its resulting start, an update that moves only startAt past
\* the stored end included, fails and writes nothing
C28_StoredRangeChecked ==
  [][(/\ RangeOperationOn(dbTasks)
      /\ ~InRange(ResultingStart(CurrentOperation, RowOf(dbTasks)),
                  ResultingEnd(CurrentOperation, RowOf(dbTasks))))
       => FailsAndWritesNothing]_vars

\* an update that moved only startAt past the stored end has been written
C28_StartMovedPastStoredEnd ==
  /\ applyRun.pc = "done"
  /\ applyRun.failedIndexSet = {}
  /\ Len(applyRun.proposal.operations) = 2
  /\ \A k \in 1..2 : applyRun.proposal.operations[k].action = Str("update_task")
  /\ applyRun.proposal.operations[2].changes = Obj([startAt |-> Str(DateText("Z", 4))])
  /\ applyRun.proposal.operations[1].changes = Obj([endAt |-> Str(DateText("Z", 3))])
  /\ find(dbTasks, "t2").startAt = DateText("Z", 4)
  /\ find(dbTasks, "t2").endAt = NoDate

----------------------------------------------------------------------------
(* Several runs one after the other, each followed by the application of   *)
(* its proposal: tasks are created, then deleted by the id they were given. *)

\* most runs of the agent
MaxRuns == 3

\* handleSend called again after a run has returned
handleSendAgain ==
  /\ agentPc = "returned"
  /\ clock <= MaxRuns
  /\ UserMessage # <<>>
  /\ ~isLoading
  /\ error' = ""
  /\ applyResult' = NoResult
  /\ input' = [userMessage |-> UserMessage, tasks |-> tasks, projects |-> projects,
               taskTypes |-> taskTypes]
  /\ accumulatedToolResults' = <<>>
  /\ round' = 0
  /\ sentPrompts' = <<buildPromptMessages(input', <<>>, clock)>>
  /\ received' = <<>>
  /\ roundResults' = <<>>
  /\ finalPayload' = NoResult
  /\ agentPc' = "awaiting"
  /\ agentResult' = NoResult
  /\ agentError' = ""
  /\ UNCHANGED <<clock, storeVars, tasks, projects, taskTypes, pendingProposal,
                 selectedOperationIndexes, isApplying, applyRun>>

\* delete_task on the id the first created task is given
ItemDeleteCreated == Obj([action |-> Str("delete_task"), taskId |-> Str(getId(0))])

RoundTripPayloads ==
  { Obj([assistantMessage |-> Str(<<"o", "k">>),
         proposal |-> Obj([summary |-> Str(<<"s">>), operations |-> Arr(items)])]) :
      items \in { <<ItemCreate>>, <<ItemDeleteCreated>>, <<ItemCreate, ItemDeleteCreated>>,
                  <<ItemDeleteCreated, ItemCreate>> } }

RoundTripHttpOutcomes ==
  { [kind |-> "ok", text |-> [syntax |-> "json", value |-> v]] : v \in RoundTripPayloads }

NextRoundTrip ==
  \/ handleSend
  \/ handleSendAgain
  \/ \E http \in RoundTripHttpOutcomes : FinalRound(http)
  \/ \E index \in 1..2 : toggleOperation(index)
  \/ handleApplyProposal
  \/ ApplyOperation
  \/ liveQueryTasks

\* from the empty workspace: runs that propose to create a task and to delete
\* the created task, each proposal applied in whole or in part
SpecRoundTrip == InitAgent /\ [][NextRoundTrip]_vars

----------------------------------------------------------------------------
(* Properties of creating a task and deleting it again.                    *)

Rows(table) == {table[i] : i \in 1..Len(table)}

\* the operation attempted in this step is recorded as a success
AppliedStep(action) ==
  /\ ApplyStep
  /\ CurrentOperation.action = Str(action)
  /\ CurrentIndex \notin applyRun'.failedIndexSet

\* an applied create_task adds one task, under an id no stored task has
CreateAddsOne ==
  [][AppliedStep("create_task") =>
       /\ Len(dbTasks') = Len(dbTasks) + 1
       /\ \E row \in Rows(dbTasks') :
            /\ \A old \in Rows(dbTasks) : old.id # row.id
            /\ Rows(dbTasks') = Rows(dbTasks) \cup {row}]_vars

\* an applied delete_task of a stored task removes that task and no other
DeleteRemovesOne ==
  [][(/\ AppliedStep("delete_task")
      /\ find(dbTasks, CurrentOperation.taskId.v) # Absent) =>
       /\ Len(dbTasks') = Len(dbTasks) - 1
       /\ Rows(dbTasks') = Rows(dbTasks) \ {find(dbTasks, CurrentOperation.taskId.v)}]_vars

\* no task that the applier created is stored
NoCreatedTaskStored == \A row \in Rows(dbTasks) : row \in Rows(InitialTasks)

\* C29: applying a create_task and then a delete_task on the id of the
\* created task returns the store to the task count and the task set it had
\* before the create: the create adds exactly one task, the delete removes
\* exactly that task, and once the created task is deleted the table is the
\* one from before the create
C29_CreateThenDelete ==
  /\ CreateAddsOne
  /\ DeleteRemovesOne
  /\ [](NoCreatedTaskStored => dbTasks = InitialTasks)

\* the task created by one proposal has been deleted by a later one and the
\* table is the one from before the create
C29_Witness ==
  /\ applyRun.pc = "done"
  /\ idCounter = 1
  /\ Len(undoStack) = 2
  /\ undoStack[1].kind = "delete_tasks"
  /\ undoStack[2].kind = "upsert_tasks"
  /\ undoStack[2].tasks[1].id = getId(0)
  /\ dbTasks = InitialTasks

----------------------------------------------------------------------------
(* Properties of repeated applications of a proposal and its residuals.    *)

\* the number of create_task operations of a proposal
NumCreates(proposal) ==
  IF proposal = NoProposal THEN 0
  ELSE Cardinality({i \in 1..Len(proposal.operations) :
                      proposal.operations[i].action = Str("create_task")})

\* the step in which handleApplyProposal starts the loop
ApplyStarts == applyRun.pc # "applying" /\ applyRun'.pc = "applying"

\* the positions recorded as successes when the loop is over
Succeeded(run) ==
  {run.attempted[k] : k \in 1..Len(run.attempted)} \ run.failedIndexSet

\* an application starts only when none is under way, on the proposal shown
StartsOnPending ==
  [][ApplyStarts => (~isApplying /\ applyRun'.proposal = pendingProposal)]_vars

\* within one application no position is attempted twice, and the proposal
\* shown changes only when the loop is over
OncePerApplication ==
  /\ \A j, k \in 1..Len(applyRun.attempted) :
       j # k => applyRun.attempted[j] # applyRun.attempted[k]
  /\ applyRun.pc = "applying" => (isApplying /\ pendingProposal = applyRun.proposal)

\* when the loop is over, the proposal shown holds exactly the operations
\* that were not recorded as successes
SuccessesRemoved ==
  [][ApplyFinishes =>
       LET operations == applyRun.proposal.operations
           left == filterSeq(operations,
                             {i \in 1..Len(operations) : i \notin Succeeded(applyRun')})
       IN /\ Len(applyRun'.successLogs) = Cardinality(Succeeded(applyRun'))
          /\ IF left = <<>> THEN pendingProposal' = NoProposal
             ELSE /\ pendingProposal' # NoProposal
                  /\ pendingProposal'.operations = left]_vars

\* over all the applications of a proposal and its residuals, the tasks
\* created and the create_task operations still shown add up to the
\* create_task operations of the proposal the run returned
CreatesAppliedOnce ==
  /\ idCounter <= NumCreates(agentResult.proposal)
  /\ applyRun.pc # "applying" =>
       idCounter + NumCreates(pendingProposal) = NumCreates(agentResult.proposal)

\* C30: application is idempotent across repeated applies: over any sequence
\* of handleApplyProposal calls on a proposal and its residuals, each
\* operation is successfully applied at most once, because a successfully
\* applied operation is removed from the pending proposal before the next
\* apply can start
C30_AppliedAtMostOnce ==
  /\ StartsOnPending
  /\ []OncePerApplication
  /\ SuccessesRemoved
  /\ []CreatesAppliedOnce

\* a second application, of the residual of a proposal of two create_task
\* operations, is over: one task was created by the first and none by the
\* second
C30_Witness ==
  /\ applyRun.pc = "done"
  /\ NumCreates(agentResult.proposal) = 2
  /\ Len(agentResult.proposal.operations) = 2
  /\ Len(applyRun.proposal.operations) = 1
  /\ applyRun.failedIndexSet = {1}
  /\ idCounter = 1
  /\ pendingProposal = applyRun.proposal

----------------------------------------------------------------------------
(* The task forms on every project and task type, the deletion of projects *)
(* and task types, and the undo button.                                    *)

\* most task keys handed out
MaxReferenceKeys == 1

\* the task form with a project and a task type of the lists it offers
ReferenceForms ==
  { [TaskFormInput(<<"N">>, status, "NONE", 1) EXCEPT !.projectId = p, !.taskTypeId = ty] :
      status \in {"NOT_DONE"},
      p \in {dbProjects[i].id : i \in 1..Len(dbProjects)},
      ty \in {dbTaskTypes[i].id : i \in 1..Len(dbTaskTypes)} }

ReferenceTaskIds == {"t2", getId(0)}

\* deleteProject as one step
CallDeleteProject(id) ==
  /\ projectDeletion = ""
  /\ dbProjects' = deleteProject(dbProjects, dbTasks, id).dbProjects
  /\ UNCHANGED <<agentVars, dbTasks, dbTaskTypes, undoStack, idCounter, projectDeletion, uiVars,
                 applyRun>>

ReferenceCreateTask(formInput) ==
  /\ idCounter < MaxReferenceKeys
  /\ CallCreateTask(formInput)

NextReferences ==
  \/ \E formInput \in ReferenceForms : ReferenceCreateTask(formInput)
  \/ \E id \in ReferenceTaskIds, formInput \in ReferenceForms : CallUpdateTask(id, formInput)
  \/ \E id \in ReferenceTaskIds : CallRemoveTask(id)
  \/ \E updaterRanFirst \in BOOLEAN : CallUndoLastChange(updaterRanFirst)
  \/ \E id \in {DEFAULT_PROJECT_ID, "p2", "p3"} : CallDeleteProject(id)
  \/ \E id \in {"p2", "p3"} : deleteProjectCount(id)
  \/ deleteProjectDelete
  \/ \E id \in {"ty1", "ty2"} : CallDeleteTaskType(id)

\* the forms and buttons of tasks, the deletion of projects and task types
SpecReferences == InitAgent /\ [][NextReferences]_vars

----------------------------------------------------------------------------
(* Properties of the deletion of projects and task types.                  *)

ProjectReferenced(id) == \E i \in 1..Len(dbTasks) : dbTasks[i].projectId = id

TaskTypeReferenced(id) == \E i \in 1..Len(dbTasks) : dbTasks[i].taskTypeId = id

StoredIds(table) == {table[i].id : i \in 1..Len(table)}

\* in every state, deleteProject on the default project or on a project of a
\* task throws and leaves the table as it is, and so does deleteTaskType on a
\* type marked default or used by a task
DeletionRefused ==
  /\ \A id \in StoredIds(dbProjects) \cup {DEFAULT_PROJECT_ID} :
       (id = DEFAULT_PROJECT_ID \/ ProjectReferenced(id))
         => /\ deleteProject(dbProjects, dbTasks, id).threw
            /\ deleteProject(dbProjects, dbTasks, id).dbProjects = dbProjects
  /\ \A id \in StoredIds(dbTaskTypes) :
       (find(dbTaskTypes, id).isDefault \/ TaskTypeReferenced(id))
         => /\ deleteTaskTypeThrows(dbTaskTypes, dbTasks, id)
            /\ deleteTaskType(dbTaskTypes, dbTasks, id) = dbTaskTypes

\* a call of deleteProject that passes its tests, and a step that removes a
\* task type, are on a project or type that is not the default and that no
\* task uses
DeletionOnlyOfUnused ==
  [][/\ \A id \in StoredIds(dbProjects) \ StoredIds(dbProjects') :
          projectDeletion = "" => (id # DEFAULT_PROJECT_ID /\ ~ProjectReferenced(id))
     /\ (projectDeletion = "" /\ projectDeletion' # "")
          => (projectDeletion' # DEFAULT_PROJECT_ID /\ ~ProjectReferenced(projectDeletion'))
     /\ \A id \in StoredIds(dbTaskTypes) \ StoredIds(dbTaskTypes') :
          ~find(dbTaskTypes, id).isDefault /\ ~TaskTypeReferenced(id)]_vars

\* C31: deleteProject fails and leaves the store unchanged when the project
\* is the default project or is referenced by any task; deleteTaskType fails
\* and leaves the store unchanged when the type is marked default or is
\* referenced by any task
C31_DeletionGuarded ==
  /\ []DeletionRefused
  /\ DeletionOnlyOfUnused

\* one project has been deleted, and the store holds a project and a task
\* type, neither of them the default, that a task uses and that cannot be
\* deleted
C31_Witness ==
  /\ find(dbProjects, "p3") = Absent
  /\ find(dbProjects, "p2") # Absent
  /\ ProjectReferenced("p2")
  /\ deleteProject(dbProjects, dbTasks, "p2").threw
  /\ find(dbTaskTypes, "ty2") # Absent
  /\ TaskTypeReferenced("ty2")
  /\ deleteTaskTypeThrows(dbTaskTypes, dbTasks, "ty2")

----------------------------------------------------------------------------
(* The task forms and the undo button on an empty task store.              *)

\* the state after construction on a store that holds the given tasks
InitStore(table) ==
  /\ dbTasks = table
  /\ tasks = table
  /\ agentPc = "idle"
  /\ round = 0
  /\ input = [userMessage |-> <<>>, tasks |-> <<>>, projects |-> <<>>, taskTypes |-> <<>>]
  /\ accumulatedToolResults = <<>>
  /\ agentResult = NoResult
  /\ agentError = ""
  /\ clock = 1
  /\ sentPrompts = <<>>
  /\ received = <<>>
  /\ roundResults = <<>>
  /\ finalPayload = NoResult
  /\ dbProjects = InitialProjects
  /\ dbTaskTypes = InitialTaskTypes
  /\ undoStack = <<>>
  /\ idCounter = 0
  /\ projectDeletion = ""
  /\ projects = InitialProjects
  /\ taskTypes = InitialTaskTypes
  /\ pendingProposal = NoProposal
  /\ selectedOperationIndexes = <<>>
  /\ isApplying = FALSE
  /\ error = ""
  /\ applyResult = NoResult
  /\ applyRun = NoApplyRun

InitEmptyStore == InitStore(<<>>)

\* the keys of the tasks the edit form and the delete button are used on
CreatedTaskIds == {getId(0), getId(1)}

NextEmptyStore ==
  \/ \E formInput \in CreateForms : CallCreateTask(formInput)
  \/ \E id \in CreatedTaskIds, formInput \in UpdateForms : CallUpdateTask(id, formInput)
  \/ \E id \in CreatedTaskIds : CallRemoveTask(id)
  \/ \E updaterRanFirst \in BOOLEAN : CallUndoLastChange(updaterRanFirst)
  \/ Tick

SpecEmptyStore == InitEmptyStore /\ [][NextEmptyStore]_vars

\* C32: after any sequence of createTask, updateTask, removeTask and
\* undoLastChange starting from an empty task store, every stored task has
\* completedAt set if and only if its status is DONE
C32_CompletedIffDone ==
  \A i \in 1..Len(dbTasks) : (dbTasks[i].completedAt # NoDate) <=> (dbTasks[i].status = "DONE")

\* a task created as DONE and edited to NOT_DONE is stored beside a task
\* that is DONE, with a change left to undo
C32_Witness ==
  /\ \E i \in 1..Len(dbTasks) : dbTasks[i].status = "DONE" /\ dbTasks[i].completedAt # NoDate
  /\ \E i \in 1..Len(dbTasks) :
       /\ dbTasks[i].status = "NOT_DONE"
       /\ dbTasks[i].title = <<"A">>
       /\ dbTasks[i].recurrencePattern = "MONTHLY"
  /\ undoStack # <<>>

----------------------------------------------------------------------------
(* utils/taskConflicts: the conflict map the task pages compute from the   *)
(* rendered task list.                                                     *)

\* a <= b on numbers (false when either is NaN)
LessOrEqual(a, b) == ~a.isNaN /\ ~b.isNaN /\ a.ms <= b.ms

\* Math.max(a, b): NaN when either is NaN
MathMax(a, b) ==
  IF a.isNaN \/ b.isNaN THEN [isNaN |-> TRUE, ms |-> 0]
  ELSE IF a.ms >= b.ms THEN a ELSE b

\* toTimeRange without Math.max
toTimeRange_NoClamp(startAt, endAt) ==
  LET start  == getTime(startAt)
      endRaw == IF isTruthyDate(endAt) THEN getTime(endAt) ELSE start
      end    == IF ~endRaw.isNaN THEN endRaw ELSE start
  IN [start |-> start, end |-> end]

toTimeRange(startAt, endAt) ==
  LET start  == getTime(startAt)
      endRaw == IF isTruthyDate(endAt) THEN getTime(endAt) ELSE start
      end    == IF ~endRaw.isNaN THEN endRaw ELSE start
  IN [start |-> start, end |-> MathMax(start, end)]

overlaps(a, b) == LessOrEqual(a.start, b.end) /\ LessOrEqual(b.start, a.end)

\* buildTaskConflictMap adding b to the set of a only
buildTaskConflictMap_OneWay(taskList) ==
  LET activeTasks == filterSeq(taskList, {i \in 1..Len(taskList) : taskList[i].status # "DONE"})
      n == Len(activeTasks)
      range(i) == toTimeRange(activeTasks[i].startAt, activeTasks[i].endAt)
      keys == {activeTasks[i].id : i \in 1..n}
  IN [id \in keys |->
        {activeTasks[j].id : j \in {j \in 1..n : \E i \in 1..(j - 1) :
                                      /\ activeTasks[i].id = id
                                      /\ overlaps(range(i), range(j))}}]

\* buildTaskConflictMap(tasks): for each task that is not DONE, the set of
\* the ids its array holds; the pair (i, j), i < j, that overlaps adds the
\* id of j to the set of i and the id of i to the set of j
buildTaskConflictMap(taskList) ==
  LET activeTasks == filterSeq(taskList, {i \in 1..Len(taskList) : taskList[i].status # "DONE"})
      n == Len(activeTasks)
      range(i) == toTimeRange(activeTasks[i].startAt, activeTasks[i].endAt)
      keys == {activeTasks[i].id : i \in 1..n}
  IN [id \in keys |->
        {activeTasks[j].id : j \in {j \in 1..n : \E i \in 1..(j - 1) :
                                      /\ activeTasks[i].id = id
                                      /\ overlaps(range(i), range(j))}}
          \cup
        {activeTasks[i].id : i \in {i \in 1..n : \E j \in (i + 1)..n :
                                      /\ activeTasks[j].id = id
                                      /\ overlaps(range(i), range(j))}}]

\* latest start and end of the stored tasks, in clock ticks
MaxConflictTime == 3

\* a stored task of the given status, start and end
ConflictTask(id, status, startAt, endAt) ==
  Task(id, <<"N">>, DEFAULT_PROJECT_ID, status, startAt, endAt, 0)

ConflictTasksOf(id) ==
  { ConflictTask(id, status, DateText("Z", s), e) :
      status \in {"NOT_DONE", "DONE"},
      s \in 1..MaxConflictTime,
      e \in {NoDate} \cup {DateText("Z", t) : t \in {1, MaxConflictTime}} }

\* the stores of three tasks
ConflictStores ==
  { <<a, b, c>> : a \in ConflictTasksOf("t1"), b \in ConflictTasksOf("t2"),
                  c \in ConflictTasksOf("t3") }

InitConflicts == \E table \in ConflictStores : InitStore(table)

\* the delete button, then the render of the pages with the new task list
NextConflicts ==
  \/ \E id \in {"t1", "t2", "t3"} : undoStack = <<>> /\ CallRemoveTask(id)
  \/ liveQueryTasks

SpecConflicts == InitConflicts /\ [][NextConflicts]_vars

----------------------------------------------------------------------------
(* Properties of the conflict map.                                         *)

\* the conflict map of the rendered task list
ConflictMap == buildTaskConflictMap(tasks)

ActiveRows == {row \in Rows(tasks) : row.status # "DONE"}

\* C33: buildTaskConflictMap is symmetric and irreflexive: B is listed for A
\* if and only if A is listed for B, no task lists itself, and two tasks that
\* are not DONE and share only a touching boundary (A.end = B.start) are
\* listed as conflicting with each other
C33_SymmetricIrreflexive ==
  /\ \A a \in DOMAIN ConflictMap : \A b \in ConflictMap[a] :
       b \in DOMAIN ConflictMap /\ a \in ConflictMap[b]
  /\ \A a \in DOMAIN ConflictMap : a \notin ConflictMap[a]
  /\ \A A, B \in ActiveRows :
       (/\ A.id # B.id
        /\ A.endAt # NoDate
        /\ getTime(A.startAt).ms <= getTime(A.endAt).ms
        /\ getTime(A.endAt).ms = getTime(B.startAt).ms)
         => (B.id \in ConflictMap[A.id] /\ A.id \in ConflictMap[B.id])

\* after a task was deleted and the pages rendered again, the two tasks
\* left, neither DONE, touch at one instant only and list each other
C33_Witness ==
  /\ undoStack # <<>>
  /\ tasks = dbTasks
  /\ Len(tasks) = 2
  /\ \A i \in 1..2 : tasks[i].status # "DONE"
  /\ tasks[1].endAt = tasks[2].startAt
  /\ getTime(tasks[1].startAt).ms < getTime(tasks[2].startAt).ms
  /\ ConflictMap = (tasks[1].id :> {tasks[2].id}) @@ (tasks[2].id :> {tasks[1].id})

\* end' of a task: its start when it has no end, else the later of the two
EndPrime(row) ==
  IF row.endAt = NoDate THEN getTime(row.startAt).ms
  ELSE IF getTime(row.endAt).ms >= getTime(row.startAt).ms THEN getTime(row.endAt).ms
  ELSE getTime(row.startAt).ms

\* C34: buildTaskConflictMap has an entry for exactly the tasks that are not
\* DONE, and for such tasks A # B, B is in the set of A if and only if
\* A.start <= B.end' and B.start <= A.end'; a DONE task is never a key nor a
\* member of any set
C34_ExactlyOverlaps ==
  /\ DOMAIN ConflictMap = {row.id : row \in ActiveRows}
  /\ \A A, B \in ActiveRows :
       A.id # B.id =>
         (B.id \in ConflictMap[A.id]
            <=> (/\ getTime(A.startAt).ms <= EndPrime(B)
                 /\ getTime(B.startAt).ms <= EndPrime(A)))
  /\ \A row \in Rows(tasks) :
       row.status = "DONE" =>
         /\ row.id \notin DOMAIN ConflictMap
         /\ \A a \in DOMAIN ConflictMap : row.id \notin ConflictMap[a]

\* after a task was deleted and the pages rendered again: a task whose end
\* precedes its start conflicts, through its start, with a task that begins
\* between the two, and the deleted task was DONE
C34_Witness ==
  /\ undoStack # <<>>
  /\ undoStack[1].tasks[1].status = "DONE"
  /\ tasks = dbTasks
  /\ Len(tasks) = 2
  /\ \A i \in 1..2 : tasks[i].status = "NOT_DONE"
  /\ tasks[1].endAt # NoDate
  /\ getTime(tasks[1].endAt).ms < getTime(tasks[2].startAt).ms
  /\ getTime(tasks[2].startAt).ms < getTime(tasks[1].startAt).ms
  /\ tasks[2].endAt = tasks[1].startAt
  /\ tasks[2].id \in ConflictMap[tasks[1].id]

----------------------------------------------------------------------------
(* A run whose first response asks for one search_tasks call.              *)

\* tasks in the large store
MaxSearchStore == 52

\* a store of five tasks, and a store of more tasks than a search returns
SearchStores ==
  { << Task("s1", <<"R", "e">>, DEFAULT_PROJECT_ID, "NOT_DONE", DateText("Z", 1), NoDate, 0),
       Task("s2", <<"W">>, "p2", "DONE", DateText("Z", 1), NoDate, 3),
       Task("s3", <<"x">>, "p2", "NOT_DONE", DateText("Z", 1), NoDate, 1),
       Task("s4", <<"r", "E">>, DEFAULT_PROJECT_ID, "DONE", DateText("Z", 1), NoDate, 2),
       Task("s5", <<"x">>, "p3", "NOT_DONE", DateText("Z", 1), NoDate, 4) >>,
    [i \in 1..MaxSearchStore |->
       Task("b" \o ToString(i), <<"x">>, IF i % 2 = 0 THEN "p2" ELSE DEFAULT_PROJECT_ID,
            "NOT_DONE", DateText("Z", 1), NoDate, i % 7)] }

\* the args of the call; limit is counted in halves
SearchArgs ==
  { ObjectOf(a) : a \in [keyword   : {Absent, Str(<<" ", "r", "E">>), Str(<<"z">>), Num(2)},
                         projectId : {Absent, Str(""), Str("p2"), Str("p9")},
                         status    : {Absent, Str("DONE"), Str("BAD")},
                         limit     : {Absent, Str("2"), Num(0 - 1), Num(0), Num(1), Num(2),
                                      Num(5), Num(200)}] }

SearchHttpOutcomes ==
  { [kind |-> "ok",
     text |-> [syntax |-> "json",
               value |-> Obj([toolCalls |->
                                Arr(<<Obj([tool |-> Str("search_tasks"), args |-> a])>>)])]] :
      a \in SearchArgs }

ClosingHttpOutcome ==
  [kind |-> "ok", text |-> [syntax |-> "json", value |-> Obj([assistantMessage |-> Str(<<"o", "k">>)])]]

\* the round of the search, the first of the run
SearchRound(http) == round = 0 /\ ToolRound(http)

InitSearch == \E table \in SearchStores : InitStore(table)

NextSearch ==
  \/ handleSend
  \/ \E http \in SearchHttpOutcomes : SearchRound(http)
  \/ round = 1 /\ FinalRound(ClosingHttpOutcome)

SpecSearch == InitSearch /\ [][NextSearch]_vars

\* the search of the run: its args, the snapshot it ran on, what it returned
SearchDone == Len(roundResults) >= 1
SearchCallArgs == roundResults[1][1].args
SearchReturned == roundResults[1][1].result.payload
SearchSnapshot == input.tasks

\* the limit the claim states, in whole tasks
ClaimedLimit ==
  LET given == Field(SearchCallArgs, "limit")
      floor == IF given.t = "num" THEN given.v \div 2 ELSE 20
      least == IF floor < 1 THEN 1 ELSE floor
  IN IF least > 50 THEN 50 ELSE least

\* the snapshot task satisfies the three filters of the call
SatisfiesFilters(task) ==
  LET projectId == Field(SearchCallArgs, "projectId")
      status    == Field(SearchCallArgs, "status")
      keyword   == Field(SearchCallArgs, "keyword")
      wanted    == toLowerCase(Trim(keyword.v))
      text      == toLowerCase(task.title \o <<" ">> \o task.content \o <<" ">>
                               \o nameOf(input.projects, task.projectId) \o <<" ">>
                               \o nameOf(input.taskTypes, task.taskTypeId))
  IN /\ (projectId.t = "str" /\ projectId.v # "") => task.projectId = projectId.v
     /\ (status.t = "str" /\ status.v \in {"NOT_DONE", "ON_HOLD", "DONE"})
          => task.status = status.v
     /\ (keyword.t = "str" /\ wanted # <<>>)
          => \E at \in 0..(Len(text) - Len(wanted)) :
               SubSeq(text, at + 1, at + Len(wanted)) = wanted

MatchingIds == {SearchSnapshot[i].id : i \in {k \in 1..Len(SearchSnapshot) :
                                               SatisfiesFilters(SearchSnapshot[k])}}

ReturnedIds == {SearchReturned[i].id : i \in 1..Len(SearchReturned)}

UpdatedOf(id) == (CHOOSE i \in 1..Len(SearchSnapshot) : SearchSnapshot[i].id = id)

\* C35: search_tasks returns only snapshot tasks that satisfy the projectId,
\* status and keyword filters, min(50, max(1, floor(limit))) of them at most
\* (limit 20 when absent), ordered by updatedAt descending, and they are the
\* most recently updated of the matching tasks
C35_SearchReturnsNewestMatches ==
  SearchDone =>
    /\ ReturnedIds \subseteq MatchingIds
    /\ Cardinality(ReturnedIds) = Len(SearchReturned)
    /\ Len(SearchReturned) =
         (IF Cardinality(MatchingIds) < ClaimedLimit THEN Cardinality(MatchingIds)
          ELSE ClaimedLimit)
    /\ \A i, j \in 1..Len(SearchReturned) :
         i < j => SearchReturned[i].updatedAt.t >= SearchReturned[j].updatedAt.t
    /\ \A id \in MatchingIds \ ReturnedIds : \A i \in 1..Len(SearchReturned) :
         SearchSnapshot[UpdatedOf(id)].updatedAt.t <= SearchReturned[i].updatedAt.t

\* a search whose limit cuts the matches, and one that filters by keyword
C35_Witness ==
  /\ SearchDone
  /\ Len(SearchReturned) = 2
  /\ Cardinality(MatchingIds) = 4
  /\ Field(SearchCallArgs, "keyword").t = "str"
  /\ Cardinality(MatchingIds) < Len(SearchSnapshot)
  /\ SearchReturned[1].updatedAt.t > SearchReturned[2].updatedAt.t

----------------------------------------------------------------------------
(* scheduleAgent.ts: extractJsonText on the characters of the model's text. *)
(* The texts are written with braces, backticks, the letters of a fence's   *)
(* tag, a letter of prose and " " for white space; on these characters     *)
(* JSON.parse accepts the empty object only.                                *)

\* the backtick is written "^"
Backtick == "^"

Fence == <<Backtick, Backtick, Backtick>>

\* trimmed.startsWith(c) and trimmed.endsWith(c)
startsWith(s, c) == s # <<>> /\ s[1] = c
endsWith(s, c) == s # <<>> /\ s[Len(s)] = c

\* String.prototype.indexOf and lastIndexOf for one character, 0-based, -1
\* when absent
indexOf(s, c) ==
  IF \E i \in 1..Len(s) : s[i] = c
  THEN (CHOOSE i \in 1..Len(s) : s[i] = c /\ \A k \in 1..(i - 1) : s[k] # c) - 1
  ELSE 0 - 1
lastIndexOf(s, c) ==
  IF \E i \in 1..Len(s) : s[i] = c
  THEN (CHOOSE i \in 1..Len(s) : s[i] = c /\ \A k \in (i + 1)..Len(s) : s[k] # c) - 1
  ELSE 0 - 1

\* three backticks stand at position p
fenceAt(s, p) == p >= 1 /\ p + 2 <= Len(s) /\ SubSeq(s, p, p + 2) = Fence

\* (?:json)? under the i flag: the position after the tag, if it stands at p
afterJson(s, p) ==
  IF /\ p + 3 <= Len(s)
     /\ s[p] \in {"j", "J"} /\ s[p + 1] \in {"s", "S"}
     /\ s[p + 2] \in {"o", "O"} /\ s[p + 3] \in {"n", "N"}
  THEN p + 4 ELSE p

\* \s* : the first position from p on that holds no white space
afterSpaces(s, p) ==
  IF \E i \in p..Len(s) : s[i] # " "
  THEN CHOOSE i \in p..Len(s) : s[i] # " " /\ \A k \in p..(i - 1) : s[k] = " "
  ELSE Len(s) + 1

\* trimmed.match(/^^^(?:json)?\s*([\s\S]*?)^^^/i): the leftmost opening
\* fence that a later fence closes; group 1 runs from the end of the white
\* space to the first closing fence
fencedMatch(s) ==
  LET captureFrom(p) == afterSpaces(s, afterJson(s, p + 3))
      closes(p) == {q \in captureFrom(p)..Len(s) : fenceAt(s, q)}
      opens == {p \in 1..Len(s) : fenceAt(s, p) /\ closes(p) # {}}
  IN IF opens = {} THEN [matched |-> FALSE, group1 |-> <<>>]
     ELSE LET p == CHOOSE x \in opens : \A y \in opens : x <= y
              q == CHOOSE x \in closes(p) : \A y \in closes(p) : x <= y
          IN [matched |-> TRUE, group1 |-> SubSeq(s, captureFrom(p), q - 1)]

extractJsonText(raw) ==
  LET trimmed == Trim(raw)
      start == indexOf(trimmed, "{")
      end == lastIndexOf(trimmed, "}")
  IN IF startsWith(trimmed, "{") /\ endsWith(trimmed, "}") THEN trimmed
     ELSE IF fencedMatch(trimmed).matched /\ fencedMatch(trimmed).group1 # <<>>
          THEN Trim(fencedMatch(trimmed).group1)
     ELSE IF start >= 0 /\ end > start THEN Trim(SubSeq(trimmed, start + 1, end + 1))
     ELSE trimmed

\* JSON.parse on these characters: "{", white space, "}" and nothing else
jsonParse(jsonText) ==
  LET body == Trim(jsonText)
  IN IF /\ Len(body) >= 2 /\ body[1] = "{" /\ body[Len(body)] = "}"
        /\ \A i \in 2..(Len(body) - 1) : body[i] = " "
     THEN [syntax |-> "json", value |-> EmptyObject]
     ELSE [syntax |-> "garbage", value |-> Null]

\* what fetch yields for the text, reduced as parseModelPayload reads it
TextOutcome(chars) ==
  [kind |-> "ok",
   text |-> IF Trim(chars) = <<>> THEN BlankText ELSE jsonParse(extractJsonText(chars))]

\* the receipt of a text: the characters and what extractJsonText made of them
TextReceipt(chars) ==
  Receipt(TextOutcome(chars)) @@ [chars |-> chars, jsonText |-> extractJsonText(chars)]

\* the run throws on the text
TextRoundThrows(chars) ==
  /\ agentPc = "awaiting"
  /\ LET got == requestLlmResponse(TextOutcome(chars))
     IN /\ (IF got.threw THEN TRUE ELSE parseModelPayload(got.text).threw)
        /\ RunThrows(IF got.threw THEN got.error ELSE parseModelPayload(got.text).error,
                     TextReceipt(chars))

\* the text parses to an object without tool calls and the run returns
TextRoundReturns(chars) ==
  /\ agentPc = "awaiting"
  /\ ~requestLlmResponse(TextOutcome(chars)).threw
  /\ ~parseModelPayload(requestLlmResponse(TextOutcome(chars)).text).threw
  /\ LET payload == parseModelPayload(requestLlmResponse(TextOutcome(chars)).text).payload
     IN /\ ~takesToolBranch(payload)
        /\ clock' = clock + 1
        /\ agentResult' = finalResult(payload)
        /\ agentPc' = "returned"
        /\ received' = Append(received, TextReceipt(chars))
        /\ roundResults' = Append(roundResults, <<>>)
        /\ finalPayload' = payload
        /\ pendingProposal' = agentResult'.proposal
        /\ selectedOperationIndexes' = allIndexes(pendingProposal')
        /\ UNCHANGED <<round, input, accumulatedToolResults, agentError, sentPrompts,
                       storeVars, tasks, projects, taskTypes, isApplying, error, applyResult,
                       applyRun>>

\* longest text of pieces
MaxPieces == 4

RECURSIVE Concat(_)
Concat(parts) == IF parts = <<>> THEN <<>> ELSE Head(parts) \o Concat(Tail(parts))

\* prose, fence, tag, white space, object, fence, prose
FencedParts ==
  [before  : {<<"a">>, <<"a", " ">>, <<"{", "a">>, <<"{", "a", "}", " ">>, <<"a", "{", " ">>},
   tag     : {<<>>, <<"j", "s", "o", "n">>, <<"J", "S", "O", "N">>, <<"j", "s">>},
   gap     : {<<>>, <<" ">>},
   content : {<<"{", "}">>, <<"{", " ", "}">>, <<"{", "}", " ">>},
   after   : {<<"a">>, <<" ", "a">>, <<" ", "a", "}">>, <<" ", "}">>}]

Compose(parts) ==
  parts.before \o Fence \o parts.tag \o parts.gap \o parts.content \o Fence \o parts.after

\* texts of up to MaxPieces pieces
PieceTexts ==
  LET Pieces == {<<"{">>, <<"}">>, Fence, <<"a">>, <<" ">>, <<"j", "s", "o", "n">>}
  IN UNION { {Concat(ps) : ps \in [1..n -> Pieces]} : n \in 0..MaxPieces }

ExtractTexts == {Compose(parts) : parts \in FencedParts} \cup PieceTexts

NextExtract ==
  \/ handleSend
  \/ \E chars \in ExtractTexts : TextRoundThrows(chars)
  \/ \E chars \in ExtractTexts : TextRoundReturns(chars)

SpecExtract == InitAgent /\ [][NextExtract]_vars

\* the first fenced block of a text as the pattern of the code reads it: the
\* first fence, a tag json in either case, and what stands before the next fence
FirstBlock(text) ==
  LET opens == {p \in 1..Len(text) : fenceAt(text, p)}
      open == CHOOSE p \in opens : \A o \in opens : p <= o
      closes == {p \in (open + 3)..Len(text) : fenceAt(text, p)}
      close == CHOOSE p \in closes : \A o \in closes : p <= o
      inner == SubSeq(text, open + 3, close - 1)
      tagged == /\ Len(inner) >= 4
                /\ SubSeq(inner, 1, 4) \in {<<"j", "s", "o", "n">>, <<"J", "S", "O", "N">>}
  IN IF opens = {} THEN <<>>
     ELSE IF closes = {} THEN <<>>
     ELSE Trim(IF tagged THEN SubSeq(inner, 5, Len(inner)) ELSE inner)

\* the substring from the first "{" to the last "}" behind it, if there is one
BraceSpan(text) ==
  LET firsts == {p \in 1..Len(text) : text[p] = "{"}
      lasts == {p \in 1..Len(text) : text[p] = "}"}
      first == CHOOSE p \in firsts : \A o \in firsts : p <= o
      last == CHOOSE p \in lasts : \A o \in lasts : p >= o
  IN IF firsts = {} \/ lasts = {} THEN <<>>
     ELSE IF last < first THEN <<>>
     ELSE SubSeq(text, first, last)

\* the four steps of the extraction order on one received text
FollowsOrder(receipt) ==
  LET text == Trim(receipt.chars)
  IN receipt.jsonText =
       (IF text # <<>> /\ text[1] = "{" /\ text[Len(text)] = "}" THEN text
        ELSE IF FirstBlock(text) # <<>> THEN FirstBlock(text)
        ELSE IF BraceSpan(text) # <<>> THEN Trim(BraceSpan(text))
        ELSE text)

\* prose, a fenced block holding the object, prose: the object is returned
FencedReturned(receipt, parts) ==
  Compose(parts) = receipt.chars => receipt.jsonText = Trim(parts.content)

\* the text looks like a complete object from its first to its last character
LooksComplete(text) == startsWith(Trim(text), "{") /\ endsWith(Trim(text), "}")

\* the fence of the block is bare or tagged json
PlainFence(parts) == parts.tag \in {<<>>, <<"j", "s", "o", "n">>, <<"J", "S", "O", "N">>}

\* C36: for prose, a fenced block containing the structured object, prose,
\* extractJsonText returns exactly the content of the first fenced block; and
\* on every text it follows the order trimmed text from "{" to "}", first
\* fenced block, first "{" to last "}", trimmed text
C36_FencedContentReturned ==
  \A k \in 1..Len(received) :
    /\ \A parts \in FencedParts : FencedReturned(received[k], parts)
    /\ FollowsOrder(received[k])

\* what holds of C36: the order on every text, and the content of the block
\* when its fence is bare or tagged json and the text does not look complete
C36_ExtractionOrder ==
  \A k \in 1..Len(received) :
    /\ FollowsOrder(received[k])
    /\ \A parts \in FencedParts :
         (PlainFence(parts) /\ ~LooksComplete(Compose(parts)))
           => FencedReturned(received[k], parts)

\* prose, a block tagged js, prose: the tag is returned with the object and
\* the run fails
C36_TagReturned ==
  /\ agentPc = "failed"
  /\ received # <<>>
  /\ \E parts \in FencedParts :
       /\ Compose(parts) = received[1].chars
       /\ parts.tag = <<"j", "s">>
       /\ ~LooksComplete(received[1].chars)
       /\ received[1].jsonText = <<"j", "s">> \o parts.gap \o Trim(parts.content)

\* prose, a block tagged json, prose: the run returns
C36_FencedAccepted ==
  /\ agentPc = "returned"
  /\ received # <<>>
  /\ \E parts \in FencedParts :
       /\ Compose(parts) = received[1].chars
       /\ parts.tag = <<"j", "s", "o", "n">>
       /\ received[1].jsonText = <<"{", "}">>

\* every stored task names a stored project and a stored task type
ReferencesExist ==
  \A i \in 1..Len(dbTasks) :
    /\ dbTasks[i].projectId \in StoredIds(dbProjects)
    /\ dbTasks[i].taskTypeId \in StoredIds(dbTaskTypes)

\* C37: after any interleaving of task create, update and delete,
\* deleteProject, deleteTaskType and undoLastChange from a store whose tasks
\* reference existing projects and task types, every stored task's projectId
\* and taskTypeId reference an existing project and task type
C37_ReferencesExist == ReferencesExist

\* a task was removed, its project deleted, and the undo put the task back
C37_UndoRestoresDangling ==
  /\ ~ReferencesExist
  /\ undoStack = <<>>
  /\ projectDeletion = ""
  /\ \E i \in 1..Len(dbTasks) : dbTasks[i].id = "t2" /\ dbTasks[i].projectId = "p2"
  /\ "p2" \notin StoredIds(dbProjects)

----------------------------------------------------------------------------
(* A run that returns while handleApplyProposal applies an earlier proposal. *)

\* handleApplyProposal is in its loop on one proposal while pendingProposal is
\* already the proposal a run has returned since
RunReturnedWhileApplying ==
  /\ applyRun.pc = "applying"
  /\ agentPc = "returned"
  /\ pendingProposal = agentResult.proposal
  /\ pendingProposal # applyRun.proposal

\* C38: if an agent run completes while handleApplyProposal is still applying
\* an earlier proposal, then after both have finished the pending proposal is
\* the one returned by that run, not the residual of the earlier proposal
C38_RunProposalKept ==
  [][(RunReturnedWhileApplying /\ ApplyFinishes) => pendingProposal' = agentResult.proposal]_vars

\* what the code does: the handler stores the residual of the proposal it was
\* called on, whatever a run has stored in between
C38_ResidualStored ==
  [][ApplyFinishes => pendingProposal' = nextProposal(applyRun')]_vars

----------------------------------------------------------------------------
(* The application of a proposal followed by clicks on the undo button.    *)

NextRestore ==
  \/ handleApplyProposal
  \/ ApplyOperation
  \/ liveQueryTasks
  \/ \E updaterRanFirst \in BOOLEAN : CallUndoLastChange(updaterRanFirst)

\* a returned proposal is applied in whole on the initial store, whose undo
\* stack is empty, and the undo button is clicked
SpecRestore == InitApply /\ [][NextRestore]_vars

\* the handler has attempted every operation of its proposal and none failed
AppliedAll ==
  /\ applyRun.pc = "done"
  /\ applyRun.failedIndexSet = {}
  /\ Len(applyRun.attempted) = Len(applyRun.proposal.operations)

\* no two operations of the applied proposal name the same task
DistinctTargets ==
  LET operations == applyRun.proposal.operations
  IN \A i, j \in 1..Len(operations) :
       (/\ i < j
        /\ operations[i].action # Str("create_task")
        /\ operations[j].action # Str("create_task"))
         => operations[i].taskId # operations[j].taskId

\* C39: each successfully applied operation pushes its own undo entry: after
\* a proposal whose k operations all succeeded on pairwise distinct tasks, k
\* calls of undoLastChange, which empty the stack again, restore the task
\* store to its state before the application
C39_UndosRestore ==
  (AppliedAll /\ DistinctTargets /\ undoStack = <<>>) => Rows(dbTasks) = Rows(InitialTasks)

\* what holds of C39: an operation applied with success pushes one entry when
\* the operations name pairwise distinct tasks
C39_OwnEntryPushed ==
  [][(ApplyStep /\ CurrentIndex \notin applyRun'.failedIndexSet /\ DistinctTargets)
       => Len(undoStack') = Len(undoStack) + 1]_vars

\* two operations applied and undone again, the store as it was
C39_Restored ==
  /\ AppliedAll
  /\ DistinctTargets
  /\ Len(applyRun.attempted) = 2
  /\ undoStack = <<>>
  /\ Rows(dbTasks) = Rows(InitialTasks)

\* two operations applied, the stack emptied by two clicks, the store changed
C39_PoppedNotUndone ==
  /\ AppliedAll
  /\ DistinctTargets
  /\ Len(applyRun.attempted) = 2
  /\ undoStack = <<>>
  /\ Rows(dbTasks) # Rows(InitialTasks)

\* the same with every updater of undoLastChange run inside its setUndoStack call
NextRestoreEager ==
  \/ handleApplyProposal
  \/ ApplyOperation
  \/ liveQueryTasks
  \/ CallUndoLastChange(TRUE)

SpecRestoreEager == InitApply /\ [][NextRestoreEager]_vars

\* what holds of C39 under SpecRestoreEager: the undos restore the store
C39_RestoredWhenUpdaterRanFirst ==
  (AppliedAll /\ DistinctTargets /\ undoStack = <<>>)
    => \A id \in TaskIds(dbTasks) \cup TaskIds(InitialTasks) :
         find(dbTasks, id) = find(InitialTasks, id)

----------------------------------------------------------------------------
(* Properties of the selection after an application.                       *)

SelectedNow == {selectedOperationIndexes[k] : k \in 1..Len(selectedOperationIndexes)}

\* the handler ends and leaves a residual proposal: each of its operations is
\* selected once
ResidualSelected ==
  [][(ApplyFinishes /\ pendingProposal' # NoProposal) =>
       /\ Len(selectedOperationIndexes') = Len(pendingProposal'.operations)
       /\ \A i \in 1..Len(pendingProposal'.operations) :
            \E k \in 1..Len(selectedOperationIndexes') : selectedOperationIndexes'[k] = i]_vars

\* handleApplyProposal called on a proposal whose operations are all selected
\* takes every operation, in list order
FullSelectionTaken ==
  [][(ApplyStarts /\ SelectedNow = 1..Len(pendingProposal.operations)) =>
       /\ Len(applyRun'.indexesToApply) = Len(pendingProposal.operations)
       /\ \A i \in 1..Len(pendingProposal.operations) : applyRun'.indexesToApply[i] = i]_vars

\* the handler ends having attempted every operation it took
TakenAttempted ==
  [][ApplyFinishes => applyRun'.attempted = applyRun.indexesToApply]_vars

\* C40: after an application that leaves a residual proposal, every operation
\* of the residual is selected, the operations the user had deselected before
\* applying included, so a following handleApplyProposal without further user
\* input attempts all of them
C40_ResidualFullySelected == ResidualSelected /\ FullSelectionTaken /\ TakenAttempted

\* an application of a proposal of two operations, one of them deselected by
\* the user, has ended without failure: the deselected operation is the
\* residual and is selected
C40_Witness ==
  /\ applyRun.pc = "done"
  /\ Len(applyRun.proposal.operations) = 2
  /\ applyRun.selectedOperationSet = {1}
  /\ applyRun.failedIndexSet = {}
  /\ pendingProposal # NoProposal
  /\ pendingProposal.operations = <<applyRun.proposal.operations[2]>>
  /\ selectedOperationIndexes = <<1>>

====
